---- MODULE Spec2Model ----
(***************************************************************************)
(* State-machine model of the sync engine of snjs:                         *)
(*   src/lib/services/sync/sync_manager.js     (SNSyncManager)             *)
(*   src/lib/services/sync/account/operation.js (AccountSyncOperation)     *)
(*                                                                         *)
(* JavaScript is single threaded: an async function runs without           *)
(* interruption from one `await` to the next.  Every action below is one   *)
(* such uninterrupted stretch of a handler; the value of a record's pc     *)
(* names the await the invocation is suspended at.                         *)
(***************************************************************************)
EXTENDS Integers, Sequences, FiniteSets, TLC

(* ------------------------------ bounds -------------------------------- *)
\* sync() calls made from outside the manager
MaxCalls == 2
\* sync() calls made from outside when only the two queues are examined
MaxQueueCalls == 3
\* responses that carry a non-empty paginationToken
MaxPages == 1
\* sync() calls made from outside while items are being edited
MaxSaveCalls == 1
\* items of the model manager, and edits made to them
MaxItems == 1
MaxEdits == 1
\* an operation on its own is given up to MaxBatches * upLimit + 1 payloads
MaxBatches == 2
\* calls of tryCancel on one operation
MaxCancels == 1

\* payloads given to one call of payloadsByDecryptingPayloads
MaxPayloads == 2

\* items whose payloads are retrieved, items-keys that can arrive, and
\* responses with retrieved payloads
MaxKeyItems == 2
MaxKeys == 1
MaxRetrievals == 2

\* sync() calls made from outside after the first one
MaxRoundCalls == 1

\* responses handled, with or without an integrity check
MaxChecks == 7

\* responses with a retrieved payload, local changes of the item, and the
\* contents an item can have
MaxRetrieved == 2
MaxLocalEdits == 1
MaxContents == 2

\* the longest string a payload has as its content
MaxContentLen == 4
\* the most payload objects there are at a time
MaxPayloadObjects == 2

\* the most items the integrity hash is computed of, and their latest
\* updated_at
MaxHashItems == 3
MaxUpdatedAt == 2

\* the most payloads the persistent store holds, and the most invocations
\* of loadDatabasePayloads
MaxStored == 2
MaxLoads == 2

\* how many items of the singleton content type are mapped
MaxCandidates == 3

\* the latest created_at of an item
MaxCreatedAt == 2

\* how many payloads a raw batch holds
MaxBatch == 3

\* how many times a batch is imported
MaxImports == 2

\* how many payloads a batch of notes and tags holds
MaxPairBatch == 2

\* how many items reference one another, and how many calls of
\* alternateUuidForItem are made
MaxReferencing == 3
MaxAlternations == 2

\* how many payloads are encrypted, and how many items-keys there are
MaxSealed == 2
MaxCryptoKeys == 2

\* sync() calls made from outside when the first sync of an account is examined
MaxInitialCalls == 2

\* how many times the content of one item is changed
MaxNoteEdits == 2

\* how many times sync() is called from outside while the position is followed
MaxPositionCalls == 1

(* ------------------------- program constants -------------------------- *)
\* DEFAULT_UP_DOWN_LIMIT, returned by the getters upLimit and downLimit
upLimit == 150
TIMING_STRATEGY_RESOLVE_ON_NEXT == 1
TIMING_STRATEGY_FORCE_SPAWN_NEW == 2
SYNC_MODE_DEFAULT == 1
SYNC_MODE_INITIAL == 2
\* this.majorChangeThreshold, INVALID_SESSION_RESPONSE_STATUS
majorChangeThreshold == 15
INVALID_SESSION_RESPONSE_STATUS == 401
\* this.maxDiscordance
maxDiscordance == 5
DEFAULT_DATABASE_LOAD_BATCH_SIZE == 100
\* an argument that was not passed (undefined)
Undefined == 0

VARIABLES
  calls,               \* the invocations of sync(), in the order they were made
  resolveQueue,        \* this.resolveQueue: ids of the calls whose {resolve, reject} is queued
  spawnQueue,          \* this.spawnQueue
  syncing,             \* this.opStatus.syncInProgress
  databaseLoaded,      \* this.databaseLoaded
  op,                  \* the AccountSyncOperation objects, by the id of the call that made them
  items,               \* the model manager's items, by uuid
  saved,               \* every payload handed to storageManager.savePayloads so far
  lastPreSyncSaveDate, \* this.state.lastPreSyncSaveDate (0: not set)
  now,                 \* the clock read by new Date()
  budget,              \* sync() calls that may still be made from outside or by a response handler
  pages,               \* number of responses that carried a paginationToken
  handlers,            \* response handlers that are suspended and will call sync()
  events,              \* the events given to notifyEvent, in order (where they are followed)
  format,              \* the last call of payloadContentFormatForIntent and what it gave
  itemsKeys,           \* the ids of the items-keys the key manager holds
  input,               \* the payloads given to payloadsByDecryptingPayloads
  output,              \* the last call of payloadsByDecryptingPayloads and what it gave
  modelItems,          \* modelManager.allItems, as payloads, by uuid
  tasks,               \* response handlers and decryptItemsWaitingForKeys calls at an await
  retrievals,          \* the responses with retrieved items handled so far
  opResponses,         \* by sync() call, the responses its operation has pushed on responses
  syncState,           \* this.state: its discordance and whether it is out of sync
  checks,              \* the responses handled so far: integrity asked, hashes equal
  inflight,            \* the sync awaiting its response: checkIntegrity, from resolveOutOfSync
  graph,               \* the items of the model manager: content and dirty, by uuid
  resolving,           \* the handler of a response with a retrieved payload, at its awaits,
                       \* with the items there were when it read its base collection
  nextUuid,            \* the uuid the next new item gets
  edits,               \* the local changes of items and the responses handled so far
  heap,                \* the payloads constructed so far, in the order of their construction
  ejection,            \* the last call of ejected(): the payload and the object returned
  protoCall,           \* the last call of the protocol manager on constructed payloads:
                       \* its arguments, what it threw and the payloads it returned
  stored,              \* the persistent store: the uuids it holds a payload for
  persisted,           \* the last call of persistPayloads: its payloads, what it threw,
                       \* and what the store was given, saved and removed
  library,             \* modelManager.items for the integrity hash: updated_at, deleted
                       \* and dummy of each item, in the order of the array
  digest,              \* the last calls of computeDataIntegrityHash and what they gave
  rawStore,            \* storageManager.getAllRawPayloads(): the content type of each
  loads,               \* the invocations of loadDatabasePayloads, in the order they were made
  loadLog,             \* the decryptions and mappings the invocations asked for, in order
  singletons,          \* the items of a singleton content type, in the order they were mapped
  settled,             \* whether a sync has completed since the last of them was mapped
  localItems,          \* the items an import finds and adds to, in the order of their creation
  importBatch,         \* the raw batch that is imported
  importsDone,         \* how many times it was imported
  notePayload,         \* the payload the local item was mapped from
  pair,                \* the payloads a note and its tag were mapped from
  alternation,         \* the last call of alternateUuidForItem: the item's uuid, its new
                       \* uuid and the items that referenced it before the call
  vault,               \* the payloads encrypted so far, each with what was encrypted
  opened,              \* the last call of generateDecryptedParameters and what it gave
  notes,               \* the items a sync uploads: content, dirty and the dates of each
  upload,              \* the payloads of the request in flight (none: no sync in progress)
  clock,               \* the instant new Date() gives next
  position,            \* this.syncToken and this.cursorToken, and the values stored under
                       \* LAST_SYNC_TOKEN and PAGINATION_TOKEN (0: absent)
  opPosition,          \* by sync() call, lastSyncToken and paginationToken of its
                       \* operation and the tokens its last request carried
  handling,            \* the handlers of successful responses that are at an await
  server,              \* how many tokens the server has issued, and the tokens of the last
                       \* successful response
  signOut              \* handleSignOut: where it is, and what it found when it completed

\* the sync manager and its operations
coreVars == <<calls, resolveQueue, spawnQueue, syncing, databaseLoaded, op, items,
              saved, lastPreSyncSaveDate, now, budget, pages, handlers>>

\* the protocol manager
protoVars == <<format, itemsKeys, input, output>>

\* the items of the model manager that wait for their items-keys
keyVars == <<modelItems, tasks, retrievals>>

\* the events the sync manager emits and what its operations were answered
engineVars == <<events, opResponses>>

\* the SyncState of the manager and the integrity checks of its responses
integrityVars == <<syncState, checks, inflight>>

\* the items a response with retrieved payloads is resolved against
conflictVars == <<graph, resolving, nextUuid, edits>>

\* the payload objects
payloadVars == <<heap, ejection, protoCall, stored, persisted>>

\* the items the integrity hash is computed of
hashVars == <<library, digest>>

\* the stored payloads and their loading
loadVars == <<rawStore, loads, loadLog>>

\* the items of a singleton content type
singletonVars == <<singletons, settled>>

\* the import of a raw batch
importVars == <<localItems, importBatch, importsDone, notePayload, pair, alternation>>

\* the payloads, the stored data and the imports
\* the encryption of payloads under protocol version 004
cryptoVars == <<vault, opened>>

\* the items of a sync and its request in flight
savedVars == <<notes, upload, clock>>

\* the sync position and the handlers of the responses
positionVars == <<position, opPosition, handling, server, signOut>>

trackVars == <<savedVars, positionVars>>

dataVars == <<payloadVars, hashVars, loadVars, singletonVars, importVars, cryptoVars, trackVars>>

\* what only some of the specifications below follow
auxVars == <<engineVars, integrityVars, protoVars, keyVars, conflictVars, dataVars>>

\* the managers, which the specifications of the data leave alone
baseVars == <<coreVars, engineVars, integrityVars, protoVars, keyVars, conflictVars>>

vars == <<coreVars, auxVars>>

\* all but the operations and the count of paginated responses
mgrVars == <<calls, resolveQueue, spawnQueue, syncing, databaseLoaded, items,
             saved, lastPreSyncSaveDate, now, budget, handlers>>

Uuids == 1..MaxItems

Range(s) == {s[i] : i \in DOMAIN s}

(* ------------------------------ utils --------------------------------- *)
\* subtractFromArray(inArray, toSubtract): removes, in place, every element
\* of toSubtract from inArray
subtractFromArray(inArray, toSubtract) ==
  SelectSeq(inArray, LAMBDA x : x \notin Range(toSubtract))

\* removeFromIndex(array, 0)
removeFromIndex0(array) == Tail(array)

(* ------------------------- AccountSyncOperation ------------------------ *)
\* constructor: payloads and pendingPayloads are the SAME array object
\* (this.payloads = payloads; this.pendingPayloads = payloads); cancelable,
\* cancleled and running are not set (undefined, which is falsy).
\* given, requests, signals and cancelLog record what the operation was
\* handed, what it sent, the signals it emitted and the calls of tryCancel.
NewOperation(payloads, paginationToken) ==
  [ given            |-> payloads,
    payloads         |-> payloads,
    pendingPayloads  |-> payloads,
    paginationToken  |-> paginationToken,
    cancelable       |-> FALSE,
    cancleled        |-> FALSE,
    running          |-> FALSE,
    responses        |-> 0,
    pc               |-> "entry",
    requests         |-> <<>>,
    signals          |-> 0,
    cancelLog        |-> <<>> ]

Min(a, b) == IF a < b THEN a ELSE b

\* a popPayloads that takes no notice of count
popPayloadsAll(pending, count) == pending

\* popPayloads(count): slice(0, count) of pendingPayloads, which is then
\* removed from pendingPayloads in place (and so from payloads, the same
\* array) by subtractFromArray, the function of @Lib/utils, which
\* operation.js calls without importing it
popPayloads(pending, count) == SubSeq(pending, 1, Min(count, Len(pending)))

AfterPop(pending, count) == subtractFromArray(pending, popPayloads(pending, count))

\* arrayByDifference(array, subtract) of @Lib/utils: the elements of array
\* that are not in subtract
arrayByDifference(array, subtract) ==
  SelectSeq(array, LAMBDA x : x \notin Range(subtract))

\* get payloadsSavedOrSaving()
payloadsSavedOrSaving(o) == arrayByDifference(o.payloads, o.pendingPayloads)

\* run(), from its entry to the await of apiService.sync: a cancelled
\* operation returns at once; otherwise the next payloads are popped, the
\* cancelation is locked and the request is sent.
RunEntry(o) ==
  IF o.cancleled
  THEN [o EXCEPT !.pc = "returned"]
  ELSE [o EXCEPT !.running = TRUE,
                 !.pendingPayloads = AfterPop(o.pendingPayloads, upLimit),
                 !.payloads = AfterPop(o.pendingPayloads, upLimit),
                 !.cancelable = FALSE,
                 !.requests = Append(o.requests, popPayloads(o.pendingPayloads, upLimit)),
                 !.pc = "inflight"]

\* run(), from the arrival of the raw response to the call of the receiver
RunResponse(o, paginationToken) ==
  [o EXCEPT !.cancelable = TRUE,
            !.responses = o.responses + 1,
            !.paginationToken = paginationToken,
            !.signals = o.signals + 1,
            !.pc = "signalled"]

\* a needsMoreSync that takes no notice of the paginationToken
needsMoreSyncPendingOnly(o) == Len(o.pendingPayloads) > 0

\* const needsMoreSync = this.pendingPayloads.length > 0 || this.paginationToken
needsMoreSync(o) == Len(o.pendingPayloads) > 0 \/ o.paginationToken # 0

\* run(), after the receiver has returned: another run() or running = false
RunContinue(o) ==
  IF needsMoreSync(o)
  THEN RunEntry(o)
  ELSE [o EXCEPT !.running = FALSE, !.pc = "returned"]

\* tryCancel(): the value returned is recorded in cancelLog, with the point
\* of run() the operation was at
tryCancel(o) ==
  IF ~ o.cancelable
  THEN [o EXCEPT !.cancleled = TRUE,
                 !.cancelLog = Append(o.cancelLog, [at |-> o.pc, ret |-> TRUE])]
  ELSE [o EXCEPT !.cancelLog = Append(o.cancelLog, [at |-> o.pc, ret |-> FALSE])]

(* ----------------------------- SNSyncManager --------------------------- *)
\* modelManager.getDirtyItems()
DirtyItems == {u \in Uuids : items[u].dirty}

\* CreateMaxPayloadFromAnyObject({object: item}) for the items of a call
PayloadOf(u) ==
  [uuid |-> u, version |-> items[u].version, dirty |-> items[u].dirty,
   dirtiedDate |-> items[u].dirtiedDate]

RECURSIVE SetToSeq(_)
SetToSeq(S) ==
  IF S = {} THEN <<>>
  ELSE LET x == CHOOSE y \in S : \A z \in S : y <= z
       IN <<x>> \o SetToSeq(S \ {x})

\* a popPayloadsNeedingPreSyncSave whose early return returns nothing
popPayloadsNeedingNoSaveAtFirst(from) ==
  IF lastPreSyncSaveDate = 0
  THEN <<>>
  ELSE SelectSeq(from, LAMBDA candidate : candidate.dirtiedDate > lastPreSyncSaveDate)

\* popPayloadsNeedingPreSyncSave(from): the payloads returned; state.
\* lastPreSyncSaveDate is assigned nowhere but below the early return, so
\* it is unset (0) when the manager is constructed
popPayloadsNeedingPreSyncSave(from) ==
  IF lastPreSyncSaveDate = 0
  THEN from
  ELSE SelectSeq(from, LAMBDA candidate : candidate.dirtiedDate > lastPreSyncSaveDate)

\* popPayloadsNeedingPreSyncSave(from): this.state.lastPreSyncSaveDate afterwards
\* (the early return for an unset date leaves it unset)
DateAfterPreSyncSave ==
  IF lastPreSyncSaveDate = 0 THEN 0 ELSE now

\* a useStrategy whose default is TIMING_STRATEGY_FORCE_SPAWN_NEW
useStrategySpawnByDefault(timingStrategy) ==
  IF timingStrategy # Undefined THEN timingStrategy ELSE TIMING_STRATEGY_FORCE_SPAWN_NEW

\* useStrategy / useMode
useStrategy(timingStrategy) ==
  IF timingStrategy # Undefined THEN timingStrategy ELSE TIMING_STRATEGY_RESOLVE_ON_NEXT

useMode(mode) ==
  IF mode # Undefined THEN mode ELSE SYNC_MODE_DEFAULT

\* a check that takes no notice of opStatus.syncInProgress
MustWaitForDatabaseOnly(syncInProgress, loaded) == ~ loaded

\* if(syncInProgress || !databaseLoaded)
MustWait(syncInProgress, loaded) == syncInProgress \/ ~ loaded

\* sync(), from the call to its first await: the dirty items are read
NewCall(timingStrategy, mode) ==
  [ timingStrategy |-> timingStrategy,
    mode           |-> mode,
    pc             |-> "called",
    items          |-> DirtyItems,
    payloads       |-> <<>>,
    inTime         |-> <<>>,
    why            |-> "",
    link           |-> 0 ]

\* the state, after construction, of what only some specifications follow
\* the protocol manager before it is used
ProtoInit ==
  /\ format = [intent |-> "", key |-> FALSE, result |-> ""]
  /\ itemsKeys = {}
  /\ input = <<>>
  /\ output = [called |-> FALSE, throws |-> FALSE, threw |-> FALSE, out |-> <<>>]

\* no item is known and nothing is being decrypted
KeysInit ==
  /\ modelItems = <<>>
  /\ tasks = <<>>
  /\ retrievals = 0

\* nothing was emitted or received yet
EngineInit ==
  /\ events = <<>>
  /\ opResponses = <<>>

\* new SyncState({maxDiscordance, receiver}); no sync is awaiting a response
IntegrityInit ==
  /\ syncState = [discordance |-> 0, outOfSync |-> FALSE]
  /\ checks = <<>>
  /\ inflight = [running |-> FALSE, checkIntegrity |-> FALSE, recovery |-> FALSE]

\* no item, and no response being resolved
ConflictInit ==
  /\ graph = <<>>
  /\ resolving = [pc |-> "idle", incoming |-> 0, items |-> <<>>, base |-> <<>>,
                  collection |-> <<>>]
  /\ nextUuid = 2
  /\ edits = [local |-> 0, responses |-> 0]

\* no payload was constructed yet
PayloadInit ==
  /\ heap = <<>>
  /\ ejection = [called |-> FALSE, of |-> 0, result |-> <<>>]
  /\ stored = {}
  /\ persisted = [called |-> FALSE, asEncrypted |-> FALSE, of |-> <<>>, threw |-> "",
                  given |-> <<>>,
                  saved |-> {}, removed |-> {}]
  /\ protoCall = [op |-> "", of |-> <<>>, key |-> FALSE, intent |-> "", threw |-> "",
             out |-> <<>>]

\* no item, and no hash computed
HashInit ==
  /\ library = <<>>
  /\ digest = [computed |-> FALSE, sync |-> <<>>, protocol |-> <<>>]

\* nothing is stored and nothing was loaded
LoadInit ==
  /\ rawStore = <<>>
  /\ loads = <<>>
  /\ loadLog = <<>>

\* no item of the singleton content type
SingletonInit ==
  /\ singletons = <<>>
  /\ settled = FALSE

\* nothing to import
ImportInit ==
  /\ localItems = <<>>
  /\ importBatch = <<>>
  /\ importsDone = 0
  /\ notePayload = <<>>
  /\ pair = <<>>
  /\ alternation = [called |-> FALSE, of |-> 0, as |-> 0, referrers |-> {}]

\* nothing encrypted
CryptoInit ==
  /\ vault = <<>>
  /\ opened = [called |-> FALSE, content |-> 0, key |-> 0, uuid |-> 0, keyGiven |-> 0,
               result |-> <<>>]

\* no item, no request in flight
SavedInit ==
  /\ notes = <<>>
  /\ upload = <<>>
  /\ clock = 1

\* no token in memory or in storage, no operation, no handler, no sign-out
PositionInit ==
  /\ position = [memory  |-> [lastSyncToken |-> 0, paginationToken |-> 0],
                 storage |-> [lastSyncToken |-> 0, paginationToken |-> 0]]
  /\ opPosition = <<>>
  /\ handling = <<>>
  /\ server = [issued |-> 0, granted |-> [lastSyncToken |-> 0, paginationToken |-> 0]]
  /\ signOut = [pc |-> "no", queuesEmpty |-> FALSE, answered |-> FALSE]

TrackInit ==
  /\ SavedInit
  /\ PositionInit

DataInit ==
  /\ PayloadInit
  /\ HashInit
  /\ LoadInit
  /\ SingletonInit
  /\ CryptoInit
  /\ TrackInit
  /\ ImportInit

AuxInit ==
  /\ EngineInit
  /\ IntegrityInit
  /\ ProtoInit
  /\ KeysInit
  /\ ConflictInit
  /\ DataInit

Init ==
  /\ AuxInit
  /\ calls = <<>>
  /\ resolveQueue = <<>>
  /\ spawnQueue = <<>>
  /\ syncing = FALSE
  /\ databaseLoaded = FALSE
  /\ op = <<>>
  /\ items = [u \in Uuids |-> [dirty |-> FALSE, version |-> 0, dirtiedDate |-> 0]]
  /\ saved = {}
  /\ lastPreSyncSaveDate = 0
  /\ now = 1
  /\ budget = MaxCalls
  /\ pages = 0
  /\ handlers = 0

\* The locals of a call that has returned, or that the rest of sync() no
\* longer reads, are dropped from its record.
Returned(call) == [NewCall(Undefined, Undefined) EXCEPT !.pc = "done", !.items = {}]

(* sync() called from outside, with any timing strategy and mode *)
SyncCall(timingStrategy, mode) ==
  /\ budget > 0
  /\ calls' = Append(calls, NewCall(timingStrategy, mode))
  /\ budget' = budget - 1
  /\ UNCHANGED <<resolveQueue, spawnQueue, syncing, databaseLoaded, op, items,
                 saved, lastPreSyncSaveDate, now, pages, handlers>>

(* sync(), after await itemsNeedingSync() up to await persistPayloads():    *)
(* the payloads of the items are made, those needing the pre-sync save are  *)
(* encrypted (ENCRYPTION_INTENT_LOCAL_STORAGE_PREFER_ENCRYPTED) and handed  *)
(* to storageManager.savePayloads.                                          *)
PreSyncSave(c) ==
  /\ calls[c].pc = "called"
  /\ LET uuids == SetToSeq(calls[c].items)
         decryptedPayloads == [i \in 1..Len(uuids) |-> PayloadOf(uuids[i])]
         payloadsNeedingSave == popPayloadsNeedingPreSyncSave(decryptedPayloads)
     IN /\ calls' = [calls EXCEPT ![c].payloads = decryptedPayloads, ![c].items = {},
                                  ![c].pc = "gate"]
        /\ saved' = saved \cup Range(payloadsNeedingSave)
        /\ lastPreSyncSaveDate' = DateAfterPreSyncSave
  /\ UNCHANGED <<resolveQueue, spawnQueue, syncing, databaseLoaded, op, items,
                 now, budget, pages, handlers>>

(* sync(), from the resolve-queue snapshot to await setItemsProperties():   *)
(* no await lies between the snapshot, the check of syncInProgress and      *)
(* databaseLoaded, the push on a queue and opStatus.setDidBegin().          *)
Gate(c) ==
  /\ calls[c].pc = "gate"
  /\ IF MustWait(syncing, databaseLoaded)
     THEN /\ calls' = [calls EXCEPT ![c].pc = "queued", ![c].payloads = <<>>,
                          ![c].why = IF syncing THEN "inProgress" ELSE "notLoaded"]
          /\ IF useStrategy(calls[c].timingStrategy) = TIMING_STRATEGY_RESOLVE_ON_NEXT
             THEN /\ resolveQueue' = Append(resolveQueue, c)
                  /\ UNCHANGED spawnQueue
             ELSE /\ spawnQueue' = Append(spawnQueue, c)
                  /\ UNCHANGED resolveQueue
          /\ UNCHANGED syncing
     ELSE /\ calls' = [calls EXCEPT ![c].pc = "begun", ![c].inTime = resolveQueue,
                                    ![c].timingStrategy = Undefined]
          /\ syncing' = TRUE
          /\ UNCHANGED <<resolveQueue, spawnQueue>>
  /\ UNCHANGED <<databaseLoaded, op, items, saved, lastPreSyncSaveDate, now,
                 budget, pages, handlers>>

\* uploadPayloads: the call's payloads encrypted, or none in SYNC_MODE_INITIAL
uploadPayloads(call) ==
  IF useMode(call.mode) = SYNC_MODE_DEFAULT THEN call.payloads ELSE <<>>

(* sync(), from await setItemsProperties() to await operation.run(): the    *)
(* operation is made and run() sends its first request.  (`online` is read  *)
(* on line 422 before its declaration on line 431; in the transpiled bundle *)
(* the tests run it is undefined there, which only selects the encryption   *)
(* intent of the upload.)                                                   *)
StartOperation(c) ==
  /\ calls[c].pc = "begun"
  /\ op' = (c :> RunEntry(NewOperation(uploadPayloads(calls[c]), 0))) @@ op
  /\ calls' = [calls EXCEPT ![c].pc = "op", ![c].payloads = <<>>]
  /\ UNCHANGED <<resolveQueue, spawnQueue, syncing, databaseLoaded, items, saved,
                 lastPreSyncSaveDate, now, budget, pages, handlers>>

(* The server answers the request in flight: run() resumes, signals the     *)
(* response to the receiver (which is not awaited) and either sends the     *)
(* next request or returns.  A response whose resolution has                *)
(* conflictsNeedSync leaves its handler to call sync() later.               *)
ServerResponse(c, paginationToken, conflict) ==
  /\ c \in DOMAIN op
  /\ c \in DOMAIN calls
  /\ op[c].pc = "inflight"
  /\ paginationToken # 0 => pages < MaxPages
  /\ conflict => budget > 0
  /\ op' = [op EXCEPT ![c] = RunContinue(RunResponse(op[c], paginationToken))]
  /\ pages' = IF paginationToken # 0 THEN pages + 1 ELSE pages
  /\ handlers' = IF conflict THEN handlers + 1 ELSE handlers
  /\ budget' = IF conflict THEN budget - 1 ELSE budget
  /\ UNCHANGED <<calls, resolveQueue, spawnQueue, syncing, databaseLoaded, items,
                 saved, lastPreSyncSaveDate, now>>

(* handleSuccessServerResponse, its end: if(resolver.conflictsNeedSync) this.sync() *)
HandlerSync ==
  /\ handlers > 0
  /\ handlers' = handlers - 1
  /\ calls' = Append(calls, NewCall(Undefined, Undefined))
  /\ UNCHANGED <<resolveQueue, spawnQueue, syncing, databaseLoaded, op, items,
                 saved, lastPreSyncSaveDate, now, budget, pages>>

\* a popSpawnQueue that takes the newest entry
PoppedSpawnNewest == IF spawnQueue = <<>> THEN 0 ELSE spawnQueue[Len(spawnQueue)]

\* popSpawnQueue(): the entry removed (0: none, the queue was empty)
PoppedSpawn == IF spawnQueue = <<>> THEN 0 ELSE spawnQueue[1]

\* a completion that resolves the oldest callback of the snapshot only
AfterResolveOldest(cs, inTime, popped, spawned) ==
  [q \in DOMAIN cs |->
     IF inTime # <<>> /\ q = Head(inTime) THEN [cs[q] EXCEPT !.pc = "done"]
     ELSE IF q = popped THEN [cs[q] EXCEPT !.pc = "popped", !.link = spawned]
     ELSE cs[q]]

\* a completion that never syncs again for the callers left in resolveQueue
SyncAgainNever(popped, rest) == FALSE

\* if(!this.popSpawnQueue() && this.resolveQueue.length > 0) this.sync()
SyncAgain(popped, rest) == popped = 0 /\ Len(rest) > 0

\* callback.resolve() for the callbacks of inTimeResolveQueue; the promise of
\* the popped spawn entry waits for the sync() made for it (link)
AfterResolve(cs, inTime, popped, spawned) ==
  [q \in DOMAIN cs |->
     IF q \in Range(inTime) THEN Returned(cs[q])
     ELSE IF q = popped THEN [cs[q] EXCEPT !.pc = "popped", !.link = spawned]
     ELSE cs[q]]

(* sync(), from the return of await operation.run() to its end:             *)
(* opStatus.setDidEnd(), the callbacks of the snapshot are resolved and     *)
(* taken off resolveQueue, then popSpawnQueue() or, if it spawned nothing   *)
(* and resolveQueue is not empty, this.sync(); handleSyncOperationCompletion*)
(* resets opStatus; in SYNC_MODE_INITIAL the call returns this.sync().      *)
SyncEnd(c) ==
  /\ calls[c].pc = "op"
  /\ op[c].pc = "returned"
  /\ LET inTime   == calls[c].inTime
         rest     == subtractFromArray(resolveQueue, inTime)
         popped   == PoppedSpawn
         again    == SyncAgain(popped, rest)
         initial  == useMode(calls[c].mode) = SYNC_MODE_INITIAL
         n        == Len(calls)
         resolved == AfterResolve(calls, inTime, popped, n + 1)
         spawned  == IF popped # 0
                     THEN <<NewCall(TIMING_STRATEGY_FORCE_SPAWN_NEW, Undefined)>>
                     ELSE IF again
                          THEN <<NewCall(Undefined, Undefined)>>
                          ELSE <<>>
         followUp == IF initial THEN <<NewCall(Undefined, Undefined)>> ELSE <<>>
         self     == IF initial
                     THEN [resolved[c] EXCEPT !.pc = "chained", !.inTime = <<>>,
                                              !.mode = Undefined,
                                              !.link = n + Len(spawned) + 1]
                     ELSE Returned(resolved[c])
     IN /\ syncing' = FALSE
        /\ resolveQueue' = rest
        /\ spawnQueue' = IF popped # 0 THEN removeFromIndex0(spawnQueue) ELSE spawnQueue
        /\ calls' = [resolved EXCEPT ![c] = self] \o spawned \o followUp
        /\ op' = [d \in DOMAIN op \ {c} |-> op[d]]
  /\ UNCHANGED <<databaseLoaded, items, saved, lastPreSyncSaveDate, now,
                 budget, pages, handlers>>

(* popSpawnQueue(): .then(() => promise.resolve()) of the sync() spawned for *)
(* the popped entry                                                          *)
SpawnSettle(h) ==
  /\ calls[h].pc = "popped"
  /\ calls[calls[h].link].pc = "done"
  /\ calls' = [calls EXCEPT ![h] = Returned(calls[h])]
  /\ UNCHANGED <<resolveQueue, spawnQueue, syncing, databaseLoaded, op, items,
                 saved, lastPreSyncSaveDate, now, budget, pages, handlers>>

(* the promise of a SYNC_MODE_INITIAL call, which returned this.sync()       *)
ChainSettle(c) ==
  /\ calls[c].pc = "chained"
  /\ calls[calls[c].link].pc = "done"
  /\ calls' = [calls EXCEPT ![c] = Returned(calls[c])]
  /\ UNCHANGED <<resolveQueue, spawnQueue, syncing, databaseLoaded, op, items,
                 saved, lastPreSyncSaveDate, now, budget, pages, handlers>>

(* loadDatabasePayloads(): its last statements set databaseLoaded; a second *)
(* invocation throws                                                        *)
LoadDatabase ==
  /\ ~ databaseLoaded
  /\ databaseLoaded' = TRUE
  /\ UNCHANGED <<calls, resolveQueue, spawnQueue, syncing, op, items, saved,
                 lastPreSyncSaveDate, now, budget, pages, handlers>>

(* modelManager.setItemsDirty([item]) after a change of the item's content  *)
DirtyItem(u) ==
  /\ items[u].version < MaxEdits
  /\ items' = [items EXCEPT ![u] = [dirty |-> TRUE, version |-> @.version + 1,
                                    dirtiedDate |-> now]]
  /\ now' = now + 1
  /\ UNCHANGED <<calls, resolveQueue, spawnQueue, syncing, databaseLoaded, op,
                 saved, lastPreSyncSaveDate, budget, pages, handlers>>

TimingStrategies == {Undefined, TIMING_STRATEGY_RESOLVE_ON_NEXT, TIMING_STRATEGY_FORCE_SPAWN_NEW}
SyncModes == {Undefined, SYNC_MODE_INITIAL}

Next ==
  \/ \E ts \in TimingStrategies, m \in SyncModes : SyncCall(ts, m) /\ UNCHANGED auxVars
  \/ \E c \in DOMAIN calls : PreSyncSave(c) /\ UNCHANGED auxVars
  \/ \E c \in DOMAIN calls : Gate(c) /\ UNCHANGED auxVars
  \/ \E c \in DOMAIN calls : StartOperation(c) /\ UNCHANGED auxVars
  \/ \E c \in DOMAIN calls, t \in {0, 1}, k \in BOOLEAN : ServerResponse(c, t, k) /\ UNCHANGED auxVars
  \/ HandlerSync /\ UNCHANGED auxVars
  \/ \E c \in DOMAIN calls : SyncEnd(c) /\ UNCHANGED auxVars
  \/ \E c \in DOMAIN calls : SpawnSettle(c) /\ UNCHANGED auxVars
  \/ \E c \in DOMAIN calls : ChainSettle(c) /\ UNCHANGED auxVars
  \/ LoadDatabase /\ UNCHANGED auxVars


Spec == Init /\ [][Next]_vars

(* The two queues: calls with and without TIMING_STRATEGY_FORCE_SPAWN_NEW,  *)
(* all in the default mode, every response the last of its operation        *)
InitQueues ==
  /\ AuxInit
  /\ calls = <<>>
  /\ resolveQueue = <<>>
  /\ spawnQueue = <<>>
  /\ syncing = FALSE
  /\ databaseLoaded = FALSE
  /\ op = <<>>
  /\ items = [u \in Uuids |-> [dirty |-> FALSE, version |-> 0, dirtiedDate |-> 0]]
  /\ saved = {}
  /\ lastPreSyncSaveDate = 0
  /\ now = 1
  /\ budget = MaxQueueCalls
  /\ pages = 0
  /\ handlers = 0

NextQueues ==
  \/ \E ts \in {Undefined, TIMING_STRATEGY_FORCE_SPAWN_NEW} : SyncCall(ts, Undefined) /\ UNCHANGED auxVars
  \/ \E c \in DOMAIN calls : PreSyncSave(c) /\ UNCHANGED auxVars
  \/ \E c \in DOMAIN calls : Gate(c) /\ UNCHANGED auxVars
  \/ \E c \in DOMAIN calls : StartOperation(c) /\ UNCHANGED auxVars
  \/ \E c \in DOMAIN calls : ServerResponse(c, 0, FALSE) /\ UNCHANGED auxVars
  \/ \E c \in DOMAIN calls : SyncEnd(c) /\ UNCHANGED auxVars
  \/ \E c \in DOMAIN calls : SpawnSettle(c) /\ UNCHANGED auxVars
  \/ LoadDatabase /\ UNCHANGED auxVars

SpecQueues == InitQueues /\ [][NextQueues]_vars

InternalQueues ==
  \/ \E c \in DOMAIN calls : PreSyncSave(c) /\ UNCHANGED auxVars
  \/ \E c \in DOMAIN calls : Gate(c) /\ UNCHANGED auxVars
  \/ \E c \in DOMAIN calls : StartOperation(c) /\ UNCHANGED auxVars
  \/ \E c \in DOMAIN calls : ServerResponse(c, 0, FALSE) /\ UNCHANGED auxVars
  \/ \E c \in DOMAIN calls : SyncEnd(c) /\ UNCHANGED auxVars
  \/ \E c \in DOMAIN calls : SpawnSettle(c) /\ UNCHANGED auxVars

(* The database load completes, every request is answered and every promise *)
(* continuation runs; nothing obliges anyone to call sync() again.          *)
FairQueues ==
  InitQueues /\ [][NextQueues]_vars /\ WF_vars(InternalQueues) /\ WF_vars(LoadDatabase /\ UNCHANGED auxVars)

(* Every step the manager takes by itself, once a call has been made *)
Internal ==
  \/ \E c \in DOMAIN calls : PreSyncSave(c) /\ UNCHANGED auxVars
  \/ \E c \in DOMAIN calls : Gate(c) /\ UNCHANGED auxVars
  \/ \E c \in DOMAIN calls : StartOperation(c) /\ UNCHANGED auxVars
  \/ \E c \in DOMAIN calls, t \in {0, 1}, k \in BOOLEAN : ServerResponse(c, t, k) /\ UNCHANGED auxVars
  \/ HandlerSync /\ UNCHANGED auxVars
  \/ \E c \in DOMAIN calls : SyncEnd(c) /\ UNCHANGED auxVars
  \/ \E c \in DOMAIN calls : SpawnSettle(c) /\ UNCHANGED auxVars
  \/ \E c \in DOMAIN calls : ChainSettle(c) /\ UNCHANGED auxVars

(* The database load completes, every request is answered, at most MaxPages *)
(* answers carry a paginationToken, and every promise continuation runs.    *)
FairSpec == Init /\ [][Next]_vars /\ WF_vars(Internal) /\ WF_vars(LoadDatabase /\ UNCHANGED auxVars)

(* Items are edited while sync() is called *)
InitSave ==
  /\ AuxInit
  /\ calls = <<>>
  /\ resolveQueue = <<>>
  /\ spawnQueue = <<>>
  /\ syncing = FALSE
  /\ databaseLoaded = FALSE
  /\ op = <<>>
  /\ items = [u \in Uuids |-> [dirty |-> FALSE, version |-> 0, dirtiedDate |-> 0]]
  /\ saved = {}
  /\ lastPreSyncSaveDate = 0
  /\ now = 1
  /\ budget = MaxSaveCalls
  /\ pages = 0
  /\ handlers = 0

NextSave ==
  \/ \E m \in SyncModes : SyncCall(Undefined, m) /\ UNCHANGED auxVars
  \/ \E c \in DOMAIN calls : PreSyncSave(c) /\ UNCHANGED auxVars
  \/ \E c \in DOMAIN calls : Gate(c) /\ UNCHANGED auxVars
  \/ \E c \in DOMAIN calls : StartOperation(c) /\ UNCHANGED auxVars
  \/ \E c \in DOMAIN calls, t \in {0, 1} : ServerResponse(c, t, FALSE) /\ UNCHANGED auxVars
  \/ \E c \in DOMAIN calls : SyncEnd(c) /\ UNCHANGED auxVars
  \/ \E c \in DOMAIN calls : ChainSettle(c) /\ UNCHANGED auxVars
  \/ LoadDatabase /\ UNCHANGED auxVars
  \/ \E u \in Uuids : DirtyItem(u) /\ UNCHANGED auxVars

SpecSave == InitSave /\ [][NextSave]_vars

\* as InitSave, with more calls of sync() from outside
InitInitial ==
  /\ AuxInit
  /\ calls = <<>>
  /\ resolveQueue = <<>>
  /\ spawnQueue = <<>>
  /\ syncing = FALSE
  /\ databaseLoaded = FALSE
  /\ op = <<>>
  /\ items = [u \in Uuids |-> [dirty |-> FALSE, version |-> 0, dirtiedDate |-> 0]]
  /\ saved = {}
  /\ lastPreSyncSaveDate = 0
  /\ now = 1
  /\ budget = MaxInitialCalls
  /\ pages = 0
  /\ handlers = 0

\* sync() is called from outside with a mode; the calls the manager makes
\* itself pass none
NextInitial ==
  \/ \E m \in {SYNC_MODE_DEFAULT, SYNC_MODE_INITIAL} : SyncCall(Undefined, m) /\ UNCHANGED auxVars
  \/ \E c \in DOMAIN calls : PreSyncSave(c) /\ UNCHANGED auxVars
  \/ \E c \in DOMAIN calls : Gate(c) /\ UNCHANGED auxVars
  \/ \E c \in DOMAIN calls : StartOperation(c) /\ UNCHANGED auxVars
  \/ \E c \in DOMAIN calls, t \in {0, 1} : ServerResponse(c, t, FALSE) /\ UNCHANGED auxVars
  \/ \E c \in DOMAIN calls : SyncEnd(c) /\ UNCHANGED auxVars
  \/ \E c \in DOMAIN calls : ChainSettle(c) /\ UNCHANGED auxVars
  \/ LoadDatabase /\ UNCHANGED auxVars
  \/ \E u \in Uuids : DirtyItem(u) /\ UNCHANGED auxVars

SpecInitial == InitInitial /\ [][NextInitial]_vars

(* ------------------- an AccountSyncOperation on its own ---------------- *)
(* The operation is given 0 .. MaxBatches * upLimit + 1 payloads, here the  *)
(* numbers 1 .. n, and any paginationToken.                                 *)
InitOp ==
  /\ AuxInit
  /\ calls = <<>>
  /\ resolveQueue = <<>>
  /\ spawnQueue = <<>>
  /\ syncing = FALSE
  /\ databaseLoaded = TRUE
  /\ \E n \in 0..(MaxBatches * upLimit + 1), t \in {0, 1} :
        op = (1 :> NewOperation([i \in 1..n |-> i], t))
  /\ items = [u \in Uuids |-> [dirty |-> FALSE, version |-> 0, dirtiedDate |-> 0]]
  /\ saved = {}
  /\ lastPreSyncSaveDate = 0
  /\ now = 1
  /\ budget = 0
  /\ pages = 0
  /\ handlers = 0

(* run() is called by the owner of the operation *)
OpRun ==
  /\ op[1].pc = "entry"
  /\ op' = [op EXCEPT ![1] = RunEntry(op[1])]
  /\ UNCHANGED mgrVars
  /\ UNCHANGED pages

(* The request in flight is answered; the receiver, which is any function   *)
(* given to the constructor, may call tryCancel() before it returns.        *)
OpResponse(paginationToken, cancelInReceiver) ==
  /\ op[1].pc = "inflight"
  /\ paginationToken # 0 => pages < MaxPages
  /\ cancelInReceiver => Len(op[1].cancelLog) < MaxCancels
  /\ LET signalled == RunResponse(op[1], paginationToken)
         received  == IF cancelInReceiver THEN tryCancel(signalled) ELSE signalled
     IN op' = [op EXCEPT ![1] = RunContinue(received)]
  /\ pages' = IF paginationToken # 0 THEN pages + 1 ELSE pages
  /\ UNCHANGED mgrVars

(* tryCancel() is called while run() is suspended, or not running *)
OpTryCancel ==
  /\ op[1].pc \in {"entry", "inflight", "returned"}
  /\ Len(op[1].cancelLog) < MaxCancels
  /\ op' = [op EXCEPT ![1] = tryCancel(op[1])]
  /\ UNCHANGED mgrVars
  /\ UNCHANGED pages

NextOp ==
  \/ OpRun /\ UNCHANGED auxVars
  \/ \E t \in {0, 1}, k \in BOOLEAN : OpResponse(t, k) /\ UNCHANGED auxVars
  \/ OpTryCancel /\ UNCHANGED auxVars

SpecOp == InitOp /\ [][NextOp]_vars

(* run() is called and every request is answered *)
FairSpecOp ==
  InitOp /\ [][NextOp]_vars /\ WF_vars(OpRun /\ UNCHANGED auxVars)
         /\ WF_vars(\E t \in {0, 1}, k \in BOOLEAN : OpResponse(t, k) /\ UNCHANGED auxVars)


(* --------------------------- SNProtocolManager ------------------------- *)
\* @Protocol/intents
Intents ==
  {"Sync", "LocalStorageEncrypted", "LocalStorageDecrypted",
   "LocalStoragePreferEncrypted", "FileEncrypted", "FileDecrypted"}

\* a payloadContentFormatForIntent that takes a key to be there whenever the
\* intent prefers encryption
payloadContentFormatPreferringEncryption(key, intent) ==
  IF intent \in {"Sync", "LocalStorageEncrypted", "FileEncrypted",
                 "LocalStoragePreferEncrypted"}
  THEN "EncryptedString"
  ELSE "DecryptedBareObject"

\* payloadContentFormatForIntent({key, intent}): the format returned;
\* "undefined" where no branch returns, "throws" where it throws
payloadContentFormatForIntent(key, intent) ==
  IF ~ key
  THEN IF intent \in {"LocalStorageDecrypted", "LocalStoragePreferEncrypted",
                      "FileDecrypted"}
       THEN "DecryptedBareObject"
       ELSE IF intent = "Sync"
            THEN "DecryptedBase64String"
            ELSE "undefined"
  ELSE IF intent \in {"Sync", "LocalStorageEncrypted", "FileEncrypted",
                      "LocalStoragePreferEncrypted"}
       THEN "EncryptedString"
       ELSE "throws"

\* The payloads that are decrypted.  kind tells what the content is:
\*   "encrypted"   a string the operator of its version decrypts
\*   "corrupt"     a string whose decryption fails in the operator
\*   "badversion"  a string whose first characters name no known version
\*   "decrypted"   an object
\*   "deleted"     deleted === true and no content
\*   "nonpayload"  an object that is not a payload (isPayload is not set)
\*   "null"        no payload at all (a null or undefined element)

NullPayload ==
  [uuid |-> 0, kind |-> "null", key |-> 0, errorDecrypting |-> FALSE,
   errorDecryptingValueChanged |-> FALSE, waitingForKey |-> FALSE]

\* what an element of the list given to payloadsByDecryptingPayloads can be
PayloadInputs ==
  {NullPayload}
  \cup [uuid : {0}, kind : {"nonpayload", "deleted", "decrypted"}, key : {1},
        errorDecrypting : {FALSE}, errorDecryptingValueChanged : {FALSE},
        waitingForKey : {FALSE}]
  \cup [uuid : {0}, kind : {"encrypted", "corrupt", "badversion"}, key : {1},
        errorDecrypting : BOOLEAN, errorDecryptingValueChanged : BOOLEAN,
        waitingForKey : {FALSE}]

\* the i-th payload of a list has uuid i
WithUuids(list) ==
  [i \in DOMAIN list |->
     IF list[i].kind = "null" THEN list[i] ELSE [list[i] EXCEPT !.uuid = i]]

\* keyManager.keyToUseForDecryptionOfPayload({payload}): the items-key named
\* by items_key_id, 0 (null) when the key manager does not hold it
keyToUseForDecryptionOfPayload(payload, keys) ==
  IF payload.key \in keys THEN payload.key ELSE 0

\* operator.generateDecryptedParameters({encryptedParameters, key})
generateDecryptedParameters(payload) ==
  IF payload.kind = "encrypted"
  THEN [payload EXCEPT !.kind = "decrypted",
                       !.errorDecrypting = FALSE,
                       !.errorDecryptingValueChanged = payload.errorDecrypting,
                       !.waitingForKey = FALSE]
  ELSE [payload EXCEPT !.errorDecrypting = TRUE,
                       !.errorDecryptingValueChanged = ~ payload.errorDecrypting]

\* payloadByDecryptingPayload throws: createOperatorForVersion finds no
\* operator for the version of the content; the key is looked up before
Raises(payload, keys) ==
  /\ keyToUseForDecryptionOfPayload(payload, keys) # 0
  /\ payload.kind = "badversion"

\* payloadByDecryptingPayload({payload}) where it does not throw
payloadByDecryptingPayload(payload, keys) ==
  IF keyToUseForDecryptionOfPayload(payload, keys) = 0
  THEN [payload EXCEPT !.waitingForKey = TRUE, !.errorDecrypting = TRUE]
  ELSE generateDecryptedParameters(payload)

\* a catch branch that leaves the payload as it was
ErrorUnmarked(payload) == payload

\* payloadsByDecryptingPayloads, the payload pushed by its catch branch
ErrorMarked(payload) ==
  [payload EXCEPT !.errorDecrypting = TRUE,
                  !.errorDecryptingValueChanged = ~ payload.errorDecrypting]

\* payloadsByDecryptingPayloads({payloads, throws}): whether it threw, and
\* the list decryptedPayloads (as far as it got, if it threw)
RECURSIVE payloadsByDecryptingPayloads(_, _, _)
payloadsByDecryptingPayloads(payloads, throws, keys) ==
  IF payloads = <<>>
  THEN [threw |-> FALSE, out |-> <<>>]
  ELSE LET encryptedPayload == Head(payloads)
           rest    == payloadsByDecryptingPayloads(Tail(payloads), throws, keys)
           Push(p) == [threw |-> rest.threw, out |-> <<p>> \o rest.out]
       IN IF encryptedPayload.kind = "null"
          THEN Push(encryptedPayload)
          ELSE IF encryptedPayload.kind = "nonpayload"
          THEN [threw |-> TRUE, out |-> <<>>]
          ELSE IF encryptedPayload.kind \in {"deleted", "decrypted"}
          THEN Push(encryptedPayload)
          ELSE IF Raises(encryptedPayload, keys)
          THEN IF throws
               THEN [threw |-> TRUE, out |-> <<ErrorMarked(encryptedPayload)>>]
               ELSE Push(ErrorMarked(encryptedPayload))
          ELSE Push(payloadByDecryptingPayload(encryptedPayload, keys))

(* The protocol manager is given any list of up to MaxPayloads payloads     *)
(* while the key manager holds the items-key of the payloads or not.        *)
\* the sync manager, constructed and never called
CoreIdle ==
  /\ calls = <<>>
  /\ resolveQueue = <<>>
  /\ spawnQueue = <<>>
  /\ syncing = FALSE
  /\ databaseLoaded = FALSE
  /\ op = <<>>
  /\ items = [u \in Uuids |-> [dirty |-> FALSE, version |-> 0, dirtiedDate |-> 0]]
  /\ saved = {}
  /\ lastPreSyncSaveDate = 0
  /\ now = 1
  /\ budget = 0
  /\ pages = 0
  /\ handlers = 0

InitProtocol ==
  /\ CoreIdle
  /\ EngineInit
  /\ IntegrityInit
  /\ format = [intent |-> "", key |-> FALSE, result |-> ""]
  /\ itemsKeys \in SUBSET {1}
  /\ \E n \in 0..MaxPayloads : \E list \in [1..n -> PayloadInputs] :
        input = WithUuids(list)
  /\ output = [called |-> FALSE, throws |-> FALSE, threw |-> FALSE, out |-> <<>>]
  /\ KeysInit
  /\ ConflictInit
  /\ DataInit

(* payloadContentFormatForIntent is called (once in a behaviour: the      *)
(* function reads and keeps no state)                                     *)
FormatForIntent(key, intent) ==
  /\ format.intent = ""
  /\ format' = [intent |-> intent, key |-> key,
                result |-> payloadContentFormatForIntent(key, intent)]
  /\ UNCHANGED <<coreVars, dataVars, conflictVars, engineVars, integrityVars,
                 keyVars, itemsKeys, input, output>>

(* payloadsByDecryptingPayloads is called *)
DecryptPayloads(throws) ==
  /\ ~ output.called
  /\ LET result == payloadsByDecryptingPayloads(input, throws, itemsKeys)
     IN output' = [called |-> TRUE, throws |-> throws,
                   threw |-> result.threw, out |-> result.out]
  /\ UNCHANGED <<coreVars, dataVars, conflictVars, engineVars, integrityVars,
                 keyVars, format, itemsKeys, input>>

NextProtocol ==
  \/ \E key \in BOOLEAN, intent \in Intents : FormatForIntent(key, intent)
  \/ \E throws \in BOOLEAN : DecryptPayloads(throws)

SpecProtocol == InitProtocol /\ [][NextProtocol]_vars


(* ------------------- items waiting for their items-keys ----------------- *)
KeyItems == 1..MaxKeyItems

\* the items-key an item is encrypted with
KeyOf(u) == ((u - 1) % MaxKeys) + 1

\* the payload of item u as the server sends it
RetrievedPayload(u) ==
  [uuid |-> u, kind |-> "encrypted", key |-> KeyOf(u), errorDecrypting |-> FALSE,
   errorDecryptingValueChanged |-> FALSE, waitingForKey |-> FALSE]

\* modelManager.mapPayloadsToLocalItems({payloads}): every payload becomes
\* the state of the item of its uuid
mapPayloadsToLocalItems(payloads) ==
  LET mapped == {payloads[i].uuid : i \in DOMAIN payloads}
      Last(u) == CHOOSE i \in DOMAIN payloads :
                   /\ payloads[i].uuid = u
                   /\ \A j \in DOMAIN payloads : payloads[j].uuid = u => j <= i
  IN [u \in DOMAIN modelItems \cup mapped |->
        IF u \in mapped THEN payloads[Last(u)] ELSE modelItems[u]]

\* decryptItemsWaitingForKeys: the items it finds
itemsWaitingForKeys ==
  {u \in DOMAIN modelItems : modelItems[u].waitingForKey}

\* the tasks left when task t has run to its end
TasksWithout(t) == SubSeq(tasks, 1, t - 1) \o SubSeq(tasks, t + 1, Len(tasks))

InitKeys ==
  /\ CoreIdle
  /\ AuxInit

(* handleSuccessServerResponse, up to the await of the resolver: every     *)
(* retrieved payload is decrypted with the keys at hand                    *)
HandlerDecrypt(S) ==
  /\ retrievals < MaxRetrievals
  /\ S # {}
  /\ retrievals' = retrievals + 1
  /\ LET uuids == SetToSeq(S)
         decryptedPayloads ==
           [i \in DOMAIN uuids |->
              payloadByDecryptingPayload(RetrievedPayload(uuids[i]), itemsKeys)]
     IN tasks' = Append(tasks, [kind |-> "handler", payloads |-> decryptedPayloads])
  /\ UNCHANGED <<coreVars, dataVars, conflictVars, engineVars, integrityVars,
                 protoVars, modelItems>>

(* handleSuccessServerResponse from mapCollectionToLocalItems on *)
HandlerMap(t) ==
  /\ t \in DOMAIN tasks
  /\ tasks[t].kind = "handler"
  /\ modelItems' = mapPayloadsToLocalItems(tasks[t].payloads)
  /\ tasks' = TasksWithout(t)
  /\ UNCHANGED <<coreVars, dataVars, conflictVars, engineVars, integrityVars,
                 protoVars, retrievals>>

(* An items-key arrives: the key manager holds it and calls its observers; *)
(* the observer of the protocol manager calls decryptItemsWaitingForKeys,  *)
(* which runs up to its await.                                             *)
KeyArrives(k) ==
  /\ k \notin itemsKeys
  /\ itemsKeys' = itemsKeys \cup {k}
  /\ IF itemsWaitingForKeys = {}
     THEN tasks' = tasks
     ELSE LET uuids == SetToSeq(itemsWaitingForKeys)
          IN tasks' = Append(tasks,
                        [kind |-> "retry",
                         payloads |-> [i \in DOMAIN uuids |-> modelItems[uuids[i]]]])
  /\ UNCHANGED <<coreVars, dataVars, conflictVars, engineVars, integrityVars,
                 format, input, output, modelItems, retrievals>>

(* decryptItemsWaitingForKeys from its await on *)
DecryptWaiting(t) ==
  /\ t \in DOMAIN tasks
  /\ tasks[t].kind = "retry"
  /\ LET decrypted == payloadsByDecryptingPayloads(tasks[t].payloads, FALSE, itemsKeys).out
     IN modelItems' = mapPayloadsToLocalItems(decrypted)
  /\ tasks' = TasksWithout(t)
  /\ UNCHANGED <<coreVars, dataVars, conflictVars, engineVars, integrityVars,
                 protoVars, retrievals>>

NextKeys ==
  \/ \E S \in SUBSET KeyItems : HandlerDecrypt(S)
  \/ \E t \in 1..MaxRetrievals : HandlerMap(t)
  \/ \E k \in 1..MaxKeys : KeyArrives(k)
  \/ \E t \in 1..MaxRetrievals : DecryptWaiting(t)

SpecKeys == InitKeys /\ [][NextKeys]_vars

\* every handler and every decryptItemsWaitingForKeys goes on after its await
FairKeys ==
  /\ SpecKeys
  /\ WF_vars(\E t \in 1..MaxRetrievals : HandlerMap(t))
  /\ WF_vars(\E t \in 1..MaxRetrievals : DecryptWaiting(t))


(* -------------------- rounds, responses and events --------------------- *)
\* The status of a response: a success, an invalid session, another error
Statuses == {200, INVALID_SESSION_RESPONSE_STATUS, 500}

\* response.numberOfItemsInvolved of a response
ItemCounts == {0, 7, 8}

\* how many dirty items the first sync() found
DirtyCounts == {0, 1, upLimit + 1}

\* response.hasError
hasError(response) == response.status # 200

\* a handleErrorServerResponse that notifies SyncError for an invalid session only
handleErrorServerResponseQuietly(c, response) ==
  IF response.status = INVALID_SESSION_RESPONSE_STATUS
  THEN << [name |-> "InvalidSession", call |-> c], [name |-> "SyncError", call |-> c] >>
  ELSE <<>>

\* handleErrorServerResponse({operation, response}): the events it notifies
handleErrorServerResponse(c, response) ==
  (IF response.status = INVALID_SESSION_RESPONSE_STATUS
   THEN << [name |-> "InvalidSession", call |-> c] >>
   ELSE <<>>)
  \o << [name |-> "SyncError", call |-> c] >>

\* operation.numberOfItemsInvolved
RECURSIVE numberOfItemsInvolved(_)
numberOfItemsInvolved(responses) ==
  IF responses = <<>> THEN 0
  ELSE Head(responses).numberOfItemsInvolved + numberOfItemsInvolved(Tail(responses))

\* a handleSyncOperationCompletion that looks at the last response only
handleSyncOperationCompletionOfLast(c, responses) ==
  (IF responses # <<>>
      /\ responses[Len(responses)].numberOfItemsInvolved >= majorChangeThreshold
   THEN << [name |-> "MajorDataChange", call |-> c] >>
   ELSE <<>>)
  \o << [name |-> "FullSyncCompleted", call |-> c] >>

\* handleSyncOperationCompletion({operation}): the events it notifies
handleSyncOperationCompletion(c, responses) ==
  (IF numberOfItemsInvolved(responses) >= majorChangeThreshold
   THEN << [name |-> "MajorDataChange", call |-> c] >>
   ELSE <<>>)
  \o << [name |-> "FullSyncCompleted", call |-> c] >>

\* operation.responses of the operation of call c
ResponsesOf(c) == IF c \in DOMAIN opResponses THEN opResponses[c] ELSE <<>>

(* The database is loaded and a first sync() has found its dirty items and *)
(* has passed the check of syncInProgress.                                 *)
InitRounds ==
  /\ AuxInit
  /\ items = [u \in Uuids |-> [dirty |-> FALSE, version |-> 0, dirtiedDate |-> 0]]
  /\ \E n \in DirtyCounts :
        calls = << [NewCall(Undefined, Undefined) EXCEPT
                      !.pc = "begun",
                      !.payloads = [i \in 1..n |->
                                      [uuid |-> i, version |-> 0, dirtiedDate |-> 0]]] >>
  /\ resolveQueue = <<>>
  /\ spawnQueue = <<>>
  /\ syncing = TRUE
  /\ databaseLoaded = TRUE
  /\ op = <<>>
  /\ saved = {}
  /\ lastPreSyncSaveDate = 0
  /\ now = 1
  /\ budget = MaxRoundCalls
  /\ pages = 0
  /\ handlers = 0

(* The server answers the request in flight with a status; run() pushes    *)
(* the response and calls the receiver, which for a response with an error *)
(* runs handleErrorServerResponse to its end before run() goes on.  No     *)
(* response here has a pagination token or conflicts that need a sync.     *)
RoundResponse(c, status, count) ==
  /\ ServerResponse(c, 0, FALSE)
  /\ LET response == [status |-> status, numberOfItemsInvolved |-> count]
     IN /\ hasError(response) => count = 0
        /\ opResponses' = (c :> Append(ResponsesOf(c), response)) @@ opResponses
        /\ events' = IF hasError(response)
                     THEN events \o handleErrorServerResponse(c, response)
                     ELSE events
  /\ UNCHANGED <<dataVars, conflictVars, integrityVars, protoVars, keyVars>>

(* sync() from the return of operation.run() to its end, with the events   *)
(* of handleSyncOperationCompletion                                        *)
RoundEnd(c) ==
  /\ SyncEnd(c)
  /\ events' = events \o handleSyncOperationCompletion(c, ResponsesOf(c))
  /\ UNCHANGED <<opResponses, dataVars, conflictVars, integrityVars, protoVars, keyVars>>

NextRounds ==
  \/ SyncCall(Undefined, Undefined) /\ UNCHANGED auxVars
  \/ \E c \in DOMAIN calls : PreSyncSave(c) /\ UNCHANGED auxVars
  \/ \E c \in DOMAIN calls : Gate(c) /\ UNCHANGED auxVars
  \/ \E c \in DOMAIN calls : StartOperation(c) /\ UNCHANGED auxVars
  \/ \E c \in DOMAIN calls, status \in Statuses, count \in ItemCounts :
        RoundResponse(c, status, count)
  \/ \E c \in DOMAIN calls : RoundEnd(c)

SpecRounds == InitRounds /\ [][NextRounds]_vars

\* every step of sync() and of its handlers is taken, and every request is
\* answered
FairRounds ==
  /\ SpecRounds
  /\ WF_vars(\E c \in DOMAIN calls : PreSyncSave(c) /\ UNCHANGED auxVars)
  /\ WF_vars(\E c \in DOMAIN calls : Gate(c) /\ UNCHANGED auxVars)
  /\ WF_vars(\E c \in DOMAIN calls : StartOperation(c) /\ UNCHANGED auxVars)
  /\ WF_vars(\E c \in DOMAIN calls, status \in Statuses, count \in ItemCounts :
                RoundResponse(c, status, count))
  /\ WF_vars(\E c \in DOMAIN calls : RoundEnd(c))


(* ------------------------- integrity and SyncState --------------------- *)
\* state.setIntegrityHashes({clientHash, serverHash}): the state afterwards
setIntegrityHashes(state, equal) ==
  IF equal
  THEN [discordance |-> 0, outOfSync |-> FALSE]
  ELSE [discordance |-> state.discordance + 1,
        outOfSync   |-> state.outOfSync \/ state.discordance + 1 >= maxDiscordance]

\* state.setIntegrityHashes: the events it hands to its receiver
stateEvents(state, equal) ==
  LET after == setIntegrityHashes(state, equal)
  IN IF ~ state.outOfSync /\ after.outOfSync THEN <<"EnterOutOfSync">>
     ELSE IF state.outOfSync /\ ~ after.outOfSync THEN <<"ExitOutOfSync">>
     ELSE <<>>

\* a receiver of the state that passes EnterOutOfSync on and nothing else
stateReceiverOfEnterOnly(event) ==
  IF event = "EnterOutOfSync" THEN << [name |-> event, call |-> 0] >> ELSE <<>>

\* initializeState, the receiver given to SyncState: what it notifies
stateReceiver(event) ==
  IF event = "EnterOutOfSync"
  THEN << [name |-> "EnterOutOfSync", call |-> 0] >>
  ELSE IF event = "ExitOutOfSync"
       THEN << [name |-> "ExitOutOfSync", call |-> 0] >>
       ELSE <<>>

\* a handler that never looks at the integrity hash
checksIntegrityNever(response) == FALSE

\* handleSuccessServerResponse: if(response.checkIntegrity)
checksIntegrity(response) == response.checkIntegrity

\* isOutOfSync()
isOutOfSync == syncState.outOfSync

InitIntegrity ==
  /\ CoreIdle
  /\ AuxInit

(* sync({checkIntegrity}) runs up to the request of its operation *)
SyncForIntegrity(checkIntegrity) ==
  /\ ~ inflight.running
  /\ Len(checks) < MaxChecks
  /\ inflight' = [running |-> TRUE, checkIntegrity |-> checkIntegrity,
                  recovery |-> FALSE]
  /\ UNCHANGED <<coreVars, dataVars, conflictVars, engineVars, syncState, checks, protoVars,
                 keyVars>>

(* resolveOutOfSync() downloads all payloads, maps and persists the result *)
(* of DeltaOutOfSync and runs sync({checkIntegrity: true}) up to the       *)
(* request of its operation                                                *)
resolveOutOfSync ==
  /\ isOutOfSync
  /\ ~ inflight.running
  /\ Len(checks) < MaxChecks
  /\ inflight' = [running |-> TRUE, checkIntegrity |-> TRUE, recovery |-> TRUE]
  /\ UNCHANGED <<coreVars, dataVars, conflictVars, engineVars, syncState, checks, protoVars,
                 keyVars>>

(* handleSuccessServerResponse, from the notification of                   *)
(* SingleSyncCompleted on: the response carries checkIntegrity of the      *)
(* request; equal tells whether the client's hash is the server's          *)
HandleIntegrity(equal) ==
  /\ inflight.running
  /\ LET response == [checkIntegrity |-> inflight.checkIntegrity]
         handed   == IF checksIntegrity(response)
                     THEN stateEvents(syncState, equal) ELSE <<>>
     IN /\ syncState' = IF checksIntegrity(response)
                        THEN setIntegrityHashes(syncState, equal)
                        ELSE syncState
        /\ events' = events \o (IF handed = <<>> THEN <<>> ELSE stateReceiver(handed[1]))
        /\ checks' = Append(checks, [asked    |-> inflight.checkIntegrity,
                                     equal    |-> equal,
                                     recovery |-> inflight.recovery])
  /\ inflight' = [running |-> FALSE, checkIntegrity |-> FALSE, recovery |-> FALSE]
  /\ UNCHANGED <<coreVars, dataVars, conflictVars, opResponses, protoVars, keyVars>>

NextIntegrity ==
  \/ \E checkIntegrity \in BOOLEAN : SyncForIntegrity(checkIntegrity)
  \/ resolveOutOfSync
  \/ \E equal \in BOOLEAN : HandleIntegrity(equal)

SpecIntegrity == InitIntegrity /\ [][NextIntegrity]_vars


(* --------------- retrieved payloads against dirty items ---------------- *)
Contents == 1..MaxContents

\* a base collection with nothing in it
emptyCollection(g) == <<>>

\* modelManager.getMasterCollection(): the payloads of all items, now
getMasterCollection(g) == g

\* DeltaRemoteRetrieved: the payloads to map for the retrieved payload of
\* uuid 1 with decrypted content incoming, against the base collection
DeltaRemoteRetrieved(base, incoming, newUuid) ==
  IF 1 \in DOMAIN base /\ base[1].dirty /\ base[1].content # incoming
  THEN << [uuid |-> 1, content |-> incoming, dirty |-> FALSE],
          [uuid |-> newUuid, content |-> base[1].content, dirty |-> TRUE] >>
  ELSE << [uuid |-> 1, content |-> incoming, dirty |-> FALSE] >>

\* modelManager.mapCollectionToLocalItems({collection}): the items afterwards
mapCollectionToLocalItems(g, collection) ==
  LET mapped == {collection[i].uuid : i \in DOMAIN collection}
      Of(u)  == CHOOSE i \in DOMAIN collection : collection[i].uuid = u
  IN [u \in DOMAIN g \cup mapped |->
        IF u \in mapped
        THEN [content |-> collection[Of(u)].content, dirty |-> collection[Of(u)].dirty]
        ELSE g[u]]

(* The item of uuid 1 is absent, or present with any content, dirty or not *)
InitConflict ==
  /\ CoreIdle
  /\ EngineInit
  /\ IntegrityInit
  /\ ProtoInit
  /\ KeysInit
  /\ DataInit
  /\ \/ graph = <<>>
     \/ \E c \in Contents, d \in BOOLEAN : graph = (1 :> [content |-> c, dirty |-> d])
  /\ resolving = [pc |-> "idle", incoming |-> 0, items |-> <<>>, base |-> <<>>,
                  collection |-> <<>>]
  /\ nextUuid = 2
  /\ edits = [local |-> 0, responses |-> 0]

(* handleSuccessServerResponse, up to the last await of the decryption of  *)
(* the payloads of the response: a payload for uuid 1 was retrieved        *)
RetrievedDecrypt(content) ==
  /\ resolving.pc = "idle"
  /\ edits.responses < MaxRetrieved
  /\ resolving' = [resolving EXCEPT !.pc = "decrypted", !.incoming = content]
  /\ edits' = [edits EXCEPT !.responses = @ + 1]
  /\ UNCHANGED <<coreVars, dataVars, engineVars, integrityVars, protoVars, keyVars, graph, nextUuid>>

(* handleSuccessServerResponse, from getMasterCollection() to the await of *)
(* mapCollectionToLocalItems: the resolver works on the base collection    *)
RetrievedResolve ==
  /\ resolving.pc = "decrypted"
  /\ LET masterCollection == getMasterCollection(graph)
     IN resolving' = [resolving EXCEPT
                        !.pc = "resolved",
                        !.items = graph,
                        !.base = masterCollection,
                        !.collection = DeltaRemoteRetrieved(masterCollection,
                                                            resolving.incoming, nextUuid)]
  /\ nextUuid' = nextUuid + 1
  /\ UNCHANGED <<coreVars, dataVars, engineVars, integrityVars, protoVars, keyVars, graph, edits>>

(* handleSuccessServerResponse, mapCollectionToLocalItems and what follows *)
RetrievedMap ==
  /\ resolving.pc = "resolved"
  /\ graph' = mapCollectionToLocalItems(graph, resolving.collection)
  /\ resolving' = [pc |-> "idle", incoming |-> 0, items |-> <<>>, base |-> <<>>,
                  collection |-> <<>>]
  /\ UNCHANGED <<coreVars, dataVars, engineVars, integrityVars, protoVars, keyVars, nextUuid, edits>>

(* the application changes the content of item u and marks it dirty *)
EditItem(u, content) ==
  /\ u \in DOMAIN graph
  /\ edits.local < MaxLocalEdits
  /\ graph[u].content # content
  /\ graph' = [graph EXCEPT ![u] = [content |-> content, dirty |-> TRUE]]
  /\ edits' = [edits EXCEPT !.local = @ + 1]
  /\ UNCHANGED <<coreVars, dataVars, engineVars, integrityVars, protoVars, keyVars, resolving,
                 nextUuid>>

NextConflict ==
  \/ \E content \in Contents : RetrievedDecrypt(content)
  \/ RetrievedResolve
  \/ RetrievedMap
  \/ \E u \in DOMAIN graph, content \in Contents : EditItem(u, content)

SpecConflict == InitConflict /\ [][NextConflict]_vars


(* ----------------------------------------------------------------------- *)
(*                    PurePayload (pure_payload.ts)                        *)
(* ----------------------------------------------------------------------- *)
(* A string is the sequence of its characters.  A value of a field is a    *)
(* token: "undefined", "null", "true", "false" or a name for what it holds. *)
(* A content is [type, chars, version]: type is "string" (chars are its    *)
(* characters), "object" (version is its version property, <<>> if it has  *)
(* none), "undefined" or "null".                                           *)

\* ProtocolVersion.V000Base64Decrypted
V000Base64Decrypted == <<"0", "0", "0">>
\* ProtocolVersion.VersionLength
VersionLength == 3
\* ProtocolVersion.V004
V004 == <<"0", "0", "4">>

\* the characters of the strings
Chars == {"0", "4"}

\* the strings of up to MaxContentLen characters
ContentStrings == UNION {[1..n -> Chars] : n \in 0..MaxContentLen}

NoContent == [type |-> "undefined", chars |-> <<>>, version |-> <<>>]

StringContent(chars) == [type |-> "string", chars |-> chars, version |-> <<>>]

ObjectContent(version) == [type |-> "object", chars |-> <<>>, version |-> version]

\* what rawPayload.content can be (RawPayload: content?: PayloadContent | string)
RawContents ==
  {NoContent, [NoContent EXCEPT !.type = "null"]}
  \cup {StringContent(chars) : chars \in ContentStrings}
  \cup {ObjectContent(version) : version \in {<<>>, V004}}

\* the values of PayloadField
FieldNames ==
  {"uuid", "content_type", "content", "deleted", "items_key_id", "enc_item_key",
   "created_at", "updated_at", "dirtiedDate", "dirty", "errorDecrypting",
   "waitingForKey", "errorDecryptingValueChanged", "lastSyncBegan",
   "lastSyncEnd", "auth_hash", "auth_params"}

\* a raw payload that has every key, with the values of an item that was
\* never synced
DefaultRaw ==
  [keys |-> FieldNames, uuid |-> "uuid", content_type |-> "Note",
   content |-> ObjectContent(V004), deleted |-> "false",
   items_key_id |-> "undefined", enc_item_key |-> "undefined",
   created_at |-> "date", updated_at |-> "undefined", dirtiedDate |-> "date",
   dirty |-> "true", errorDecrypting |-> "false", waitingForKey |-> "false",
   errorDecryptingValueChanged |-> "false", lastSyncBegan |-> "undefined",
   lastSyncEnd |-> "undefined", auth_hash |-> "undefined",
   auth_params |-> "undefined"]

\* the fields whose presence and value are varied
VariedFields == {"uuid", "content", "deleted", "auth_hash", "dirtiedDate"}

\* a raw payload with the keys of the set keys only
Restricted(raw, keys) ==
  [k \in DOMAIN raw |->
     IF k = "keys" THEN keys
     ELSE IF k \in keys THEN raw[k]
     ELSE IF k = "content" THEN NoContent
     ELSE "undefined"]

\* the raw payloads a payload is constructed of: any content; the payloads
\* encrypted with the items-key 1; any deleted and dirty; any set of keys, with or without deleted, auth_hash and uuid
RawPayloads ==
  {[DefaultRaw EXCEPT !.content = c] : c \in RawContents}
  \cup {[DefaultRaw EXCEPT !.content = StringContent(V004), !.items_key_id = "1",
                           !.enc_item_key = "key", !.errorDecrypting = e] :
          e \in {"false", "true"}}
  \cup {[DefaultRaw EXCEPT !.content = c, !.deleted = d, !.dirty = y] :
          c \in {NoContent, ObjectContent(V004)},
          d \in {"undefined", "null", "false", "true"},
          y \in {"undefined", "false", "true"}}
  \cup {Restricted([DefaultRaw EXCEPT !.deleted = d, !.auth_hash = h, !.uuid = u],
                   varied \cup rest) :
          d \in {"undefined", "null", "false", "true"},
          h \in {"undefined", "null", "hash"},
          u \in {"undefined", "uuid"},
          varied \in SUBSET VariedFields,
          rest \in {{}, FieldNames \ VariedFields}}

\* isString, isObject (utils)
isString(value) == value.type = "string"
isObject(value) == value.type = "object"

\* if(value): whether a value is truthy
Truthy(value) == value \notin {"undefined", "null", "false"}

\* string.startsWith(prefix)
startsWith(string, prefix) ==
  /\ Len(string) >= Len(prefix)
  /\ SubSeq(string, 1, Len(prefix)) = prefix

\* string.substring(0, end)
substring(string, end) ==
  SubSeq(string, 1, IF Len(string) < end THEN Len(string) ELSE end)

\* a format derivation that asks for the reserved prefix as the whole content
formatOfWholeContent(content) ==
  IF isString(content)
  THEN IF content.chars = V000Base64Decrypted
       THEN "DecryptedBase64String"
       ELSE "EncryptedString"
  ELSE IF isObject(content) THEN "DecryptedBareObject" ELSE "Deleted"

\* the constructor, lines 101-111: this.format
formatOf(content) ==
  IF isString(content)
  THEN IF startsWith(content.chars, V000Base64Decrypted)
       THEN "DecryptedBase64String"
       ELSE "EncryptedString"
  ELSE IF isObject(content) THEN "DecryptedBareObject" ELSE "Deleted"

\* the constructor, lines 113-120: this.version (<<>>: undefined)
versionOf(content) ==
  IF isString(content)
  THEN substring(content.chars, VersionLength)
  ELSE IF isObject(content) THEN content.version ELSE <<>>

\* the constructor throws (line 73)
ConstructorThrows(rawPayload, fields) ==
  /\ ~ Truthy(rawPayload.uuid)
  /\ "uuid" \in (IF fields.given THEN fields.set ELSE rawPayload.keys)

\* new PurePayload(rawPayload, fields, source) where it does not throw;
\* fields is [given, set] and source is "undefined" when it is not passed
PurePayload(rawPayload, fields, source) ==
  LET content ==
        IF /\ rawPayload.content.type \in {"string", "object"}
           /\ rawPayload.content.chars # <<>> \/ isObject(rawPayload.content)
        THEN rawPayload.content
        ELSE NoContent
  IN [fields        |-> IF fields.given THEN fields.set ELSE rawPayload.keys,
      source        |-> IF Truthy(source) THEN source ELSE "Constructor",
      uuid          |-> rawPayload.uuid,
      content_type  |-> rawPayload.content_type,
      content       |-> content,
      deleted       |-> rawPayload.deleted,
      items_key_id  |-> rawPayload.items_key_id,
      enc_item_key  |-> rawPayload.enc_item_key,
      created_at    |-> IF Truthy(rawPayload.created_at)
                        THEN rawPayload.created_at ELSE "now",
      updated_at    |-> IF Truthy(rawPayload.updated_at)
                        THEN rawPayload.updated_at ELSE "epoch",
      dirtiedDate   |-> IF rawPayload.dirtiedDate = "undefined"
                        THEN "invalid date" ELSE rawPayload.dirtiedDate,
      dirty         |-> rawPayload.dirty,
      errorDecrypting |-> rawPayload.errorDecrypting,
      waitingForKey |-> rawPayload.waitingForKey,
      errorDecryptingValueChanged |-> rawPayload.errorDecryptingValueChanged,
      lastSyncBegan |-> IF Truthy(rawPayload.lastSyncBegan)
                        THEN rawPayload.lastSyncBegan ELSE "undefined",
      lastSyncEnd   |-> IF Truthy(rawPayload.lastSyncEnd)
                        THEN rawPayload.lastSyncEnd ELSE "undefined",
      auth_hash     |-> rawPayload.auth_hash,
      auth_params   |-> rawPayload.auth_params,
      format        |-> formatOf(content),
      version       |-> versionOf(content),
      frozen        |-> TRUE]

\* nothing changes in the managers and in the persistent store
PayloadFrame == UNCHANGED <<baseVars, hashVars, loadVars, singletonVars, cryptoVars, trackVars, importVars,
                            stored, persisted>>

\* no function of a payload or of the protocol manager was called yet (each
\* is followed once in a behaviour: they read and keep no state)
NothingCalled == ~ ejection.called /\ protoCall.op = "" /\ ~ persisted.called

(* a payload is constructed of a raw payload *)
Construct(rawPayload, fields, source) ==
  /\ heap = <<>>
  /\ ~ ConstructorThrows(rawPayload, fields)
  /\ heap' = Append(heap, PurePayload(rawPayload, fields, source))
  /\ UNCHANGED <<ejection, protoCall>>
  /\ PayloadFrame

\* an ejected() that emits every field that is not meta-data
ejectedWithOptionalFields(payload) ==
  [field \in payload.fields \ {"dirtiedDate", "errorDecrypting",
                               "errorDecryptingValueChanged", "waitingForKey",
                               "lastSyncBegan", "lastSyncEnd"}
     |-> payload[field]]

\* isNullOrUndefined (utils)
isNullOrUndefined(value) == value \in {"null", "undefined"}

\* payload.ejected(): the object returned, a function of its keys
ejected(payload) ==
  LET optionalFields == {"auth_hash", "deleted"}
      nonRequiredFields == {"dirtiedDate", "errorDecrypting",
                            "errorDecryptingValueChanged", "waitingForKey",
                            "lastSyncBegan", "lastSyncEnd"}
      kept == {field \in payload.fields :
                 /\ field \notin nonRequiredFields
                 /\ ~ (/\ field \in optionalFields
                       /\ isNullOrUndefined(payload[field]))}
  IN [field \in kept |-> payload[field]]

(* ejected() is called on a payload *)
Eject(i) ==
  /\ NothingCalled
  /\ ejection' = [called |-> TRUE, of |-> i, result |-> ejected(heap[i])]
  /\ UNCHANGED <<heap, protoCall>>
  /\ PayloadFrame

\* the raw object a payload is read as when a payload is made of it
ToRaw(payload) ==
  [k \in FieldNames \cup {"keys"} |->
     IF k = "keys" THEN payload.fields ELSE payload[k]]

\* CreatePayloadFromAnyObject({object, override}) (generator): a new payload
\* with the values of override over those of object; its fields are the
\* union of the fields of object and the keys of override
CreatePayloadFromAnyObject(object, override) ==
  LET raw == ToRaw(object)
      merged == [k \in DOMAIN raw |->
                   IF k \in DOMAIN override THEN override[k] ELSE raw[k]]
  IN PurePayload(merged,
                 [given |-> TRUE, set |-> object.fields \cup DOMAIN override],
                 object.source)

\* a function that writes the values of override into the payload it is given
Overridden(payloads, i, override) ==
  [heap |-> [payloads EXCEPT ![i] = CreatePayloadFromAnyObject(payloads[i], override)],
   ref  |-> i]

\* return CreatePayloadFromAnyObject({object: payload, override}): the
\* payloads there are then, and which of them is returned
Derived(payloads, i, override) ==
  [heap |-> Append(payloads, CreatePayloadFromAnyObject(payloads[i], override)),
   ref  |-> Len(payloads) + 1]

\* isDecryptedIntent, intentRequiresEncryption (intents)
isDecryptedIntent(intent) == intent \in {"LocalStorageDecrypted", "FileDecrypted"}

intentRequiresEncryption(intent) ==
  intent \in {"Sync", "LocalStorageEncrypted", "FileEncrypted",
              "LocalStoragePreferEncrypted"}

\* operator.generateEncryptionParameters({payload, key, format}): the
\* content in the format asked for, and the key it was encrypted with
generateEncryptionParameters(payload, key, contentFormat) ==
  IF contentFormat = "EncryptedString"
  THEN [content |-> StringContent(V004), enc_item_key |-> "key",
        items_key_id |-> "1"]
  ELSE IF contentFormat = "DecryptedBase64String"
  THEN [content |-> StringContent(V000Base64Decrypted \o <<"4">>),
        enc_item_key |-> "undefined", items_key_id |-> "undefined"]
  ELSE [content |-> payload.content, enc_item_key |-> "undefined",
        items_key_id |-> "undefined"]

\* payloadByEncryptingPayload({payload, key, intent}) while the key manager
\* holds a key or not: what it throws ("" if nothing) and the values the new
\* payload has over those of payload
payloadByEncryptingPayload(payload, key, intent, managerKey) ==
  LET lookedUp == IF ~ key /\ ~ isDecryptedIntent(intent) THEN managerKey ELSE key
      contentFormat == payloadContentFormatForIntent(lookedUp, intent)
  IN IF ~ lookedUp /\ intentRequiresEncryption(intent)
     THEN [threw |-> "Attempting to generate encrypted payload with no key.",
           override |-> <<>>]
     ELSE IF contentFormat = "throws"
     THEN [threw |-> "Unhandled case in protocolManager.payloadContentFormat.",
           override |-> <<>>]
     ELSE IF contentFormat = "undefined"
     THEN [threw |-> "Unable to generate encryption parameters",
           override |-> <<>>]
     ELSE [threw |-> "",
           override |-> generateEncryptionParameters(payload, lookedUp, contentFormat)]

(* payloadByEncryptingPayload is called with a constructed payload *)
Encrypt(i, key, intent) ==
  /\ NothingCalled
  /\ Len(heap) < MaxPayloadObjects
  /\ LET result == payloadByEncryptingPayload(heap[i], key, intent, itemsKeys # {})
     IN IF result.threw # ""
        THEN /\ protoCall' = [op |-> "payloadByEncryptingPayload", of |-> <<i>>,
                              key |-> key, intent |-> intent, threw |-> result.threw,
                              out |-> <<>>]
             /\ UNCHANGED heap
        ELSE LET new == Derived(heap, i, result.override)
             IN /\ heap' = new.heap
                /\ protoCall' = [op |-> "payloadByEncryptingPayload", of |-> <<i>>,
                                 key |-> key, intent |-> intent, threw |-> "",
                                 out |-> <<new.ref>>]
  /\ UNCHANGED ejection
  /\ PayloadFrame

\* keyManager.keyToUseForDecryptionOfPayload({payload}) for a payload object:
\* whether it finds the items-key of the payload
keyToUseForDecryptionOf(payload, keys) ==
  payload.items_key_id = "1" /\ 1 \in keys

\* operator.generateDecryptedParameters({encryptedParameters, key}): the
\* decrypted content, or the marks of a failure
decryptedParameters(payload, ok) ==
  IF ok
  THEN [content |-> ObjectContent(V004), errorDecrypting |-> "false",
        errorDecryptingValueChanged |-> payload.errorDecrypting,
        waitingForKey |-> "false"]
  ELSE [errorDecrypting |-> "true",
        errorDecryptingValueChanged |->
          IF payload.errorDecrypting = "true" THEN "false" ELSE "true"]

\* payloadByDecryptingPayload({payload, key}) for a payload object: what it
\* throws ("" if nothing) and the values the new payload has over those of
\* payload; ok is whether the operator can decrypt the content
payloadByDecryptingPayloadObject(payload, key, keys, ok) ==
  IF ~ key /\ ~ keyToUseForDecryptionOf(payload, keys)
  THEN [threw |-> "",
        override |-> [waitingForKey |-> "true", errorDecrypting |-> "true"]]
  ELSE IF ~ isString(payload.content)
  THEN [threw |-> "TypeError", override |-> <<>>]
  ELSE IF substring(payload.content.chars, VersionLength)
            \notin {V004, V000Base64Decrypted}
  THEN [threw |-> "Unable to find operator for version", override |-> <<>>]
  ELSE [threw |-> "", override |-> decryptedParameters(payload, ok)]

(* payloadByDecryptingPayload is called with a constructed payload *)
Decrypt(i, key, ok) ==
  /\ NothingCalled
  /\ Len(heap) < MaxPayloadObjects
  /\ LET result == payloadByDecryptingPayloadObject(heap[i], key, itemsKeys, ok)
     IN IF result.threw # ""
        THEN /\ protoCall' = [op |-> "payloadByDecryptingPayload", of |-> <<i>>,
                              key |-> key, intent |-> "", threw |-> result.threw,
                              out |-> <<>>]
             /\ UNCHANGED heap
        ELSE LET new == Derived(heap, i, result.override)
             IN /\ heap' = new.heap
                /\ protoCall' = [op |-> "payloadByDecryptingPayload", of |-> <<i>>,
                                 key |-> key, intent |-> "", threw |-> "",
                                 out |-> <<new.ref>>]
  /\ UNCHANGED ejection
  /\ PayloadFrame

\* payloadsByDecryptingPayloads({payloads, throws}) for the payload objects
\* of the list refs: the payloads there are then, what it threw, and the list
\* it returned (what it had pushed, if it threw)
RECURSIVE payloadObjectsByDecrypting(_, _, _, _, _)
payloadObjectsByDecrypting(payloads, refs, throws, keys, ok) ==
  IF refs = <<>>
  THEN [heap |-> payloads, threw |-> "", out |-> <<>>]
  ELSE LET i == Head(refs)
           encryptedPayload == payloads[i]
           result == payloadByDecryptingPayloadObject(encryptedPayload, FALSE, keys, ok)
           marked == Derived(payloads, i,
                       [errorDecrypting |-> "true",
                        errorDecryptingValueChanged |->
                          IF encryptedPayload.errorDecrypting = "true"
                          THEN "false" ELSE "true"])
           Rest(h, ref) ==
             LET rest == payloadObjectsByDecrypting(h, Tail(refs), throws, keys, ok)
             IN [rest EXCEPT !.out = <<ref>> \o rest.out]
       IN IF \/ /\ encryptedPayload.deleted = "true"
                /\ encryptedPayload.content.type \in {"undefined", "null"}
             \/ ~ isString(encryptedPayload.content)
          THEN Rest(payloads, i)
          ELSE IF result.threw # ""
          THEN IF throws
               THEN [heap |-> marked.heap, threw |-> result.threw, out |-> <<marked.ref>>]
               ELSE Rest(marked.heap, marked.ref)
          ELSE LET new == Derived(payloads, i, result.override)
               IN Rest(new.heap, new.ref)

(* payloadsByDecryptingPayloads is called with the constructed payloads *)
DecryptObjects(throws, ok) ==
  /\ NothingCalled
  /\ heap # <<>>
  /\ 2 * Len(heap) <= MaxPayloadObjects
  /\ LET refs == [k \in 1..Len(heap) |-> k]
         result == payloadObjectsByDecrypting(heap, refs, throws, itemsKeys, ok)
     IN /\ heap' = result.heap
        /\ protoCall' = [op |-> "payloadsByDecryptingPayloads", of |-> refs,
                         key |-> FALSE, intent |-> "", threw |-> result.threw,
                         out |-> result.out]
  /\ UNCHANGED ejection
  /\ PayloadFrame

\* payload.discardable
discardable(payload) == Truthy(payload.deleted) /\ ~ Truthy(payload.dirty)

\* persistPayloads, its loop over decryptedPayloads (the payload objects of
\* the list refs): the payloads there are then, what it threw, and the list
\* newlyProcessed
RECURSIVE newlyProcessed(_, _, _)
newlyProcessed(payloads, refs, managerKey) ==
  IF refs = <<>>
  THEN [heap |-> payloads, threw |-> "", out |-> <<>>]
  ELSE LET i == Head(refs)
           result == payloadByEncryptingPayload(payloads[i], FALSE,
                       "LocalStoragePreferEncrypted", managerKey)
           Rest(h, ref) ==
             LET rest == newlyProcessed(h, Tail(refs), managerKey)
             IN [rest EXCEPT !.out = <<ref>> \o rest.out]
       IN IF discardable(payloads[i])
          THEN Rest(payloads, i)
          ELSE IF result.threw # ""
          THEN [heap |-> payloads, threw |-> result.threw, out |-> <<>>]
          ELSE LET encrypted == Derived(payloads, i, result.override)
               IN Rest(encrypted.heap, encrypted.ref)

\* storageManager.savePayloads(payloads): the uuids the store holds a payload
\* for afterwards; it removes the payloads that are discardable
savePayloads(store, payloads, refs) ==
  (store \ {payloads[refs[k]].uuid : k \in {j \in DOMAIN refs : discardable(payloads[refs[j]])}})
  \cup {payloads[refs[k]].uuid : k \in {j \in DOMAIN refs : ~ discardable(payloads[refs[j]])}}

(* persistPayloads is called with the constructed payloads, as its          *)
(* encryptedPayloads or as its decryptedPayloads                            *)
Persist(asEncrypted) ==
  /\ NothingCalled
  /\ heap # <<>>
  /\ 2 * Len(heap) <= MaxPayloadObjects
  /\ LET refs == [k \in 1..Len(heap) |-> k]
         encryptedPayloads == IF asEncrypted THEN refs ELSE <<>>
         decryptedPayloads == IF asEncrypted THEN <<>> ELSE refs
         processed == newlyProcessed(heap, decryptedPayloads, itemsKeys # {})
         allPayloads == encryptedPayloads \o processed.out
     IN /\ heap' = processed.heap
        /\ IF processed.threw # "" \/ allPayloads = <<>>
           THEN /\ persisted' = [called |-> TRUE, asEncrypted |-> asEncrypted,
                                 of |-> refs,
                                 threw |-> processed.threw, given |-> <<>>,
                                 saved |-> {}, removed |-> {}]
                /\ UNCHANGED stored
           ELSE /\ persisted' =
                     [called |-> TRUE, asEncrypted |-> asEncrypted,
                      of |-> refs, threw |-> "",
                      given |-> allPayloads,
                      saved |-> {allPayloads[k] : k \in
                                   {j \in DOMAIN allPayloads :
                                      ~ discardable(processed.heap[allPayloads[j]])}},
                      removed |-> {allPayloads[k] : k \in
                                     {j \in DOMAIN allPayloads :
                                        discardable(processed.heap[allPayloads[j]])}}]
                /\ stored' = savePayloads(stored, processed.heap, allPayloads)
  /\ UNCHANGED <<ejection, protoCall>>
  /\ UNCHANGED <<baseVars, hashVars, loadVars, singletonVars, cryptoVars, trackVars, importVars>>

InitPayload ==
  /\ CoreIdle
  /\ EngineInit
  /\ IntegrityInit
  /\ format = [intent |-> "", key |-> FALSE, result |-> ""]
  /\ itemsKeys \in SUBSET {1}
  /\ input = <<>>
  /\ output = [called |-> FALSE, throws |-> FALSE, threw |-> FALSE, out |-> <<>>]
  /\ KeysInit
  /\ ConflictInit
  /\ heap = <<>>
  /\ ejection = [called |-> FALSE, of |-> 0, result |-> <<>>]
  /\ protoCall = [op |-> "", of |-> <<>>, key |-> FALSE, intent |-> "", threw |-> "",
                  out |-> <<>>]
  /\ stored \in SUBSET {"uuid"}
  /\ persisted = [called |-> FALSE, asEncrypted |-> FALSE, of |-> <<>>, threw |-> "",
                  given |-> <<>>,
                  saved |-> {}, removed |-> {}]
  /\ HashInit
  /\ LoadInit
  /\ SingletonInit
  /\ CryptoInit
  /\ TrackInit
  /\ ImportInit

\* the fields a constructor is given: none, or any set of the varied ones
\* but content
FieldsArguments ==
  {[given |-> FALSE, set |-> {}]}
  \cup {[given |-> TRUE, set |-> set] : set \in SUBSET (VariedFields \ {"content"})}

\* the constructor is given its fields with a raw payload that has every
\* key, and its source with the default raw payload
ConstructorArguments ==
  {a \in RawPayloads \X FieldsArguments \X {"undefined"} :
     a[2].given => a[1].keys = FieldNames}
  \cup {<<DefaultRaw, [given |-> FALSE, set |-> {}], "RemoteRetrieved">>}

NextPayload ==
  \/ /\ heap = <<>>
     /\ \E a \in ConstructorArguments : Construct(a[1], a[2], a[3])
  \/ \E i \in DOMAIN heap : Eject(i)
  \/ \E i \in DOMAIN heap, key \in BOOLEAN, intent \in Intents : Encrypt(i, key, intent)
  \/ \E i \in DOMAIN heap, key \in BOOLEAN, ok \in BOOLEAN : Decrypt(i, key, ok)
  \/ \E throws \in BOOLEAN, ok \in BOOLEAN : DecryptObjects(throws, ok)
  \/ \E asEncrypted \in BOOLEAN : Persist(asEncrypted)

SpecPayload == InitPayload /\ [][NextPayload]_vars


(* ----------------------------------------------------------------------- *)
(*        computeDataIntegrityHash (sync manager, protocol manager)        *)
(* ----------------------------------------------------------------------- *)
(* sha256 has no collisions that matter here and join(',') of numbers can  *)
(* be split again: a hash is written as the list of timestamps it is the   *)
(* digest of.                                                              *)

\* the items of the model manager, as far as the hash reads them
HashItems ==
  [updated_at : 1..MaxUpdatedAt, deleted : BOOLEAN, dummy : BOOLEAN]

\* modelManager.allNondummyItems, modelManager.nonDeletedItems
allNondummyItems(its) == SelectSeq(its, LAMBDA item : ~ item.dummy)

nonDeletedItems(its) == SelectSeq(its, LAMBDA item : ~ item.dummy /\ ~ item.deleted)

\* array.sort((a, b) => b.updated_at - a.updated_at): the array sorted by
\* descending updated_at, items of the same updated_at in their order
RECURSIVE sortByUpdatedAt(_)
sortByUpdatedAt(array) ==
  IF array = <<>>
  THEN <<>>
  ELSE LET latest == CHOOSE i \in DOMAIN array :
                       /\ \A j \in DOMAIN array : array[j].updated_at <= array[i].updated_at
                       /\ \A j \in 1..(i - 1) : array[j].updated_at < array[i].updated_at
           others == [j \in 1..(Len(array) - 1) |->
                        IF j < latest THEN array[j] ELSE array[j + 1]]
       IN <<array[latest]>> \o sortByUpdatedAt(others)

\* items.map((item) => item.updatedAtTimestamp())
updatedAtTimestamps(array) == [i \in DOMAIN array |-> array[i].updated_at]

\* SNSyncManager.computeDataIntegrityHash
syncComputeDataIntegrityHash(its) ==
  updatedAtTimestamps(sortByUpdatedAt(nonDeletedItems(its)))

\* SNProtocolManager.computeDataIntegrityHash
protocolComputeDataIntegrityHash(its) ==
  updatedAtTimestamps(sortByUpdatedAt(allNondummyItems(its)))

\* the payloads, the managers but the model manager's items
HashFrame == UNCHANGED <<baseVars, payloadVars, loadVars, singletonVars, cryptoVars, trackVars, importVars>>

(* both hashes are computed of the items there are (once in a behaviour:   *)
(* the functions keep no state)                                            *)
ComputeHashes ==
  /\ ~ digest.computed
  /\ digest' = [computed |-> TRUE,
                sync |-> syncComputeDataIntegrityHash(library),
                protocol |-> protocolComputeDataIntegrityHash(library)]
  /\ UNCHANGED library
  /\ HashFrame

(* an item is mapped: it is new, or its updated_at, deleted or dummy change *)
MapItem(i, item) ==
  /\ ~ digest.computed
  /\ i \in 1..(Len(library) + 1)
  /\ i <= MaxHashItems
  /\ library' = IF i > Len(library) THEN Append(library, item)
                ELSE [library EXCEPT ![i] = item]
  /\ UNCHANGED digest
  /\ HashFrame

(* the model manager keeps its items in another order *)
Reorder(i) ==
  /\ ~ digest.computed
  /\ i \in 1..(Len(library) - 1)
  /\ library' = [library EXCEPT ![i] = library[i + 1], ![i + 1] = library[i]]
  /\ UNCHANGED digest
  /\ HashFrame

InitHash ==
  /\ CoreIdle
  /\ EngineInit
  /\ IntegrityInit
  /\ ProtoInit
  /\ KeysInit
  /\ ConflictInit
  /\ PayloadInit
  /\ HashInit
  /\ LoadInit
  /\ SingletonInit
  /\ CryptoInit
  /\ TrackInit
  /\ ImportInit

NextHash ==
  \/ ComputeHashes
  \/ \E i \in 1..MaxHashItems, item \in HashItems : MapItem(i, item)
  \/ \E i \in 1..MaxHashItems : Reorder(i)

SpecHash == InitHash /\ [][NextHash]_vars


(* ----------------------------------------------------------------------- *)
(*                 loadDatabasePayloads (sync_manager.js)                  *)
(* ----------------------------------------------------------------------- *)
(* A stored payload is known by its place in rawStore.  An invocation is    *)
(* [pc, itemsKeys, payloads, position]; its steps are the stretches between *)
(* its awaits.  loadLog gets an entry when an invocation calls             *)
(* payloadsByDecryptingPayloads ("decrypt") or mapPayloadsToLocalItems      *)
(* ("map"), with the payloads it passes.                                    *)

ContentTypes == {"SN|ItemsKey", "Note"}

\* SortPayloadsByRecentAndContentPriority(payloads, localLoadPriorty), as
\* far as the two content types go: the items-keys first
SortPayloadsByRecentAndContentPriority(store) ==
  SelectSeq([i \in DOMAIN store |-> i], LAMBDA i : store[i] = "SN|ItemsKey")
  \o SelectSeq([i \in DOMAIN store |-> i], LAMBDA i : store[i] # "SN|ItemsKey")

\* a filter that finds no items-key
noItemsKeysPayloads(store, payloads) == <<>>

\* payloads.filter((payload) => payload.content_type === 'SN|ItemsKey')
itemsKeysPayloads(store, payloads) ==
  SelectSeq(payloads, LAMBDA i : store[i] = "SN|ItemsKey")

\* payloads.slice(currentPosition, currentPosition + batchSize)
slice(array, from, to) ==
  SubSeq(array, from + 1, IF to < Len(array) THEN to ELSE Len(array))

LogEntry(l, what, payloads) == [load |-> l, what |-> what, payloads |-> payloads]

\* the managers, the payloads and the items of the hash
LoadFrame == UNCHANGED <<calls, resolveQueue, spawnQueue, syncing, op, items, saved,
                         lastPreSyncSaveDate, now, budget, pages, handlers,
                         engineVars, integrityVars, protoVars, keyVars,
                         conflictVars, payloadVars, hashVars, singletonVars, cryptoVars, trackVars,
                         importVars, rawStore>>

(* loadDatabasePayloads(rawPayloads) is invoked with the stored payloads:   *)
(* up to its first await                                                    *)
LoadBegin ==
  /\ Len(loads) < MaxLoads
  /\ IF databaseLoaded
     THEN /\ loads' = Append(loads, [pc |-> "threw", itemsKeys |-> <<>>,
                                     payloads |-> <<>>, position |-> 0])
          /\ UNCHANGED loadLog
     ELSE LET sorted == SortPayloadsByRecentAndContentPriority(rawStore)
              keys   == itemsKeysPayloads(rawStore, sorted)
          IN /\ loads' = Append(loads, [pc |-> "decryptingItemsKeys",
                                        itemsKeys |-> keys,
                                        payloads |-> subtractFromArray(sorted, keys),
                                        position |-> 0])
             /\ loadLog' = Append(loadLog, LogEntry(Len(loads) + 1, "decrypt", keys))
  /\ UNCHANGED databaseLoaded
  /\ LoadFrame

(* the items-keys are decrypted: mapPayloadsToLocalItems is called *)
LoadMapItemsKeys(l) ==
  /\ loads[l].pc = "decryptingItemsKeys"
  /\ loads' = [loads EXCEPT ![l].pc = "mapping"]
  /\ loadLog' = Append(loadLog, LogEntry(l, "map", loads[l].itemsKeys))
  /\ UNCHANGED databaseLoaded
  /\ LoadFrame

(* a mapping is done: the next batch is decrypted, or, after the last, the  *)
(* database is loaded                                                       *)
LoadNextBatch(l) ==
  /\ loads[l].pc = "mapping"
  /\ LET currentPosition == loads[l].position
         batch == slice(loads[l].payloads, currentPosition,
                        currentPosition + DEFAULT_DATABASE_LOAD_BATCH_SIZE)
     IN IF currentPosition < Len(loads[l].payloads)
        THEN /\ loads' = [loads EXCEPT ![l].pc = "decryptingBatch"]
             /\ loadLog' = Append(loadLog, LogEntry(l, "decrypt", batch))
             /\ UNCHANGED databaseLoaded
        ELSE /\ loads' = [loads EXCEPT ![l].pc = "done"]
             /\ databaseLoaded' = TRUE
             /\ UNCHANGED loadLog
  /\ LoadFrame

(* a batch is decrypted: mapPayloadsToLocalItems is called *)
LoadMapBatch(l) ==
  /\ loads[l].pc = "decryptingBatch"
  /\ LET currentPosition == loads[l].position
         batch == slice(loads[l].payloads, currentPosition,
                        currentPosition + DEFAULT_DATABASE_LOAD_BATCH_SIZE)
     IN /\ loads' = [loads EXCEPT ![l].pc = "mapping",
                                  ![l].position = currentPosition
                                                  + DEFAULT_DATABASE_LOAD_BATCH_SIZE]
        /\ loadLog' = Append(loadLog, LogEntry(l, "map", batch))
  /\ UNCHANGED databaseLoaded
  /\ LoadFrame

InitLoad ==
  /\ CoreIdle
  /\ EngineInit
  /\ IntegrityInit
  /\ ProtoInit
  /\ KeysInit
  /\ ConflictInit
  /\ PayloadInit
  /\ HashInit
  /\ SingletonInit
  /\ CryptoInit
  /\ TrackInit
  /\ ImportInit
  /\ \E n \in 0..MaxStored : rawStore \in [1..n -> ContentTypes]
  /\ loads = <<>>
  /\ loadLog = <<>>

NextLoad ==
  \/ LoadBegin
  \/ \E l \in DOMAIN loads : LoadMapItemsKeys(l)
  \/ \E l \in DOMAIN loads : LoadNextBatch(l)
  \/ \E l \in DOMAIN loads : LoadMapBatch(l)

SpecLoad == InitLoad /\ [][NextLoad]_vars


(* ----------------------------- singletons ------------------------------ *)
\* an item of the singleton content type that matches the predicate
Candidate(uuid, created_at, dirty) ==
  [uuid |-> uuid, created_at |-> created_at, deleted |-> FALSE, dirty |-> dirty]

\* the candidates that are not deleted
validItems(its) == SelectSeq(its, LAMBDA i : ~ i.deleted)

\* a sort of the candidates by created_at, the latest first
RECURSIVE sortByCreatedAtDescending(_)
sortByCreatedAtDescending(its) ==
  IF its = <<>> THEN <<>>
  ELSE LET top == CHOOSE k \in DOMAIN its :
                    /\ \A j \in DOMAIN its : its[j].created_at <= its[k].created_at
                    /\ \A j \in 1..(k - 1) : its[j].created_at < its[k].created_at
       IN <<its[top]>> \o
          sortByCreatedAtDescending([j \in 1..(Len(its) - 1) |->
                                       IF j < top THEN its[j] ELSE its[j + 1]])

\* the candidates sorted by created_at ascending; candidates of one
\* created_at keep their order
RECURSIVE sortByCreatedAt(_)
sortByCreatedAt(its) ==
  IF its = <<>> THEN <<>>
  ELSE LET low == CHOOSE k \in DOMAIN its :
                    /\ \A j \in DOMAIN its : its[k].created_at <= its[j].created_at
                    /\ \A j \in 1..(k - 1) : its[k].created_at < its[j].created_at
       IN <<its[low]>> \o
          sortByCreatedAt([j \in 1..(Len(its) - 1) |->
                             IF j < low THEN its[j] ELSE its[j + 1]])

\* the resolver: of several valid candidates every one but the earliest is
\* marked deleted and dirty
resolveSingletons(its) ==
  LET valid == validItems(its)
  IN IF Len(valid) <= 1 THEN its
     ELSE LET earliest == sortByCreatedAt(valid)[1]
          IN [k \in DOMAIN its |->
                IF its[k].deleted \/ its[k].uuid = earliest.uuid THEN its[k]
                ELSE [its[k] EXCEPT !.deleted = TRUE, !.dirty = TRUE]]

\* what a completed sync leaves of the items: the dirty ones were saved by
\* the server, and a deleted item that was saved is removed
afterSync(its) ==
  LET uploaded == [k \in DOMAIN its |-> [its[k] EXCEPT !.dirty = FALSE]]
  IN SelectSeq(uploaded, LAMBDA i : ~ i.deleted)

\* the managers, the payloads, the stored data and the imports
SingletonFrame == UNCHANGED <<baseVars, payloadVars, hashVars, loadVars, importVars,
                              cryptoVars, trackVars>>

\* mapPayloadsToLocalItems of a payload of the singleton content type, dirty
\* (setItemsDirty) or as it was retrieved
MapSingleton(created_at, dirty) ==
  /\ Len(singletons) < MaxCandidates
  /\ LET fresh == CHOOSE u \in 1..(MaxCandidates + 1) :
                    \A k \in DOMAIN singletons : singletons[k].uuid # u
     IN singletons' = Append(singletons, Candidate(fresh, created_at, dirty))
  /\ settled' = FALSE
  /\ SingletonFrame

\* a sync completes, and the singletons are resolved
SingletonSync ==
  /\ ~ settled
  /\ singletons' = resolveSingletons(afterSync(singletons))
  /\ settled' = TRUE
  /\ SingletonFrame

InitSingleton ==
  /\ CoreIdle
  /\ EngineInit
  /\ IntegrityInit
  /\ ProtoInit
  /\ KeysInit
  /\ ConflictInit
  /\ PayloadInit
  /\ HashInit
  /\ LoadInit
  /\ SingletonInit
  /\ CryptoInit
  /\ TrackInit
  /\ ImportInit

NextSingleton ==
  \/ \E t \in 1..MaxCreatedAt, d \in BOOLEAN : MapSingleton(t, d)
  \/ SingletonSync

SpecSingleton == InitSingleton /\ [][NextSingleton]_vars


(* ------------------------------- import -------------------------------- *)
\* the uuid of the item that exists before the import, and one that does not
LocalUuid == 1

ForeignUuid == 2

\* a raw payload of a batch
ImportPayloads == [uuid : {LocalUuid, ForeignUuid}, content : Contents]

\* an item of the model manager
ImportedItem(uuid, content, conflict_of) ==
  [uuid |-> uuid, content |-> content, conflict_of |-> conflict_of]

findItem(its, uuid) == SelectSeq(its, LAMBDA i : i.uuid = uuid)

\* mapPayloadsToLocalItems of one payload: the item of its uuid is created,
\* or takes the payload's content
mapPayloadToLocalItem(its, payload) ==
  IF findItem(its, payload.uuid) = <<>>
  THEN Append(its, ImportedItem(payload.uuid, payload.content, 0))
  ELSE [k \in DOMAIN its |->
          IF its[k].uuid = payload.uuid
          THEN [its[k] EXCEPT !.content = payload.content] ELSE its[k]]

\* a uuid no item has
GenerateUuid(its) == ForeignUuid + Len(its)

\* the decision on one incoming payload, against the snapshot of the local
\* contents that was taken before the batch
importPayload(its, snapshot, payload) ==
  LET local == findItem(snapshot, payload.uuid)
  IN IF local = <<>> THEN mapPayloadToLocalItem(its, payload)
     ELSE IF local[1].content = payload.content THEN its
     ELSE Append(its, ImportedItem(GenerateUuid(its), payload.content, payload.uuid))

RECURSIVE importPayloads(_, _, _)
importPayloads(its, snapshot, batch) ==
  IF batch = <<>> THEN its
  ELSE importPayloads(importPayload(its, snapshot, Head(batch)), snapshot, Tail(batch))

\* importItemsFromRaw(rawPayloads)
importItemsFromRaw(its, rawPayloads) == importPayloads(its, its, rawPayloads)

\* the managers, the payloads, the stored data and the singletons
ImportFrame == UNCHANGED <<baseVars, payloadVars, hashVars, loadVars, singletonVars, cryptoVars, trackVars>>

\* modelManager.importItemsFromRaw(importBatch)
Import ==
  /\ importsDone < MaxImports
  /\ localItems' = importItemsFromRaw(localItems, importBatch)
  /\ importsDone' = importsDone + 1
  /\ UNCHANGED <<importBatch, notePayload, pair, alternation>>
  /\ ImportFrame

\* one local item, mapped from a payload, and a batch to import
InitImport ==
  /\ CoreIdle
  /\ EngineInit
  /\ IntegrityInit
  /\ ProtoInit
  /\ KeysInit
  /\ ConflictInit
  /\ PayloadInit
  /\ HashInit
  /\ LoadInit
  /\ SingletonInit
  /\ CryptoInit
  /\ TrackInit
  /\ \E c \in Contents :
       /\ notePayload = [uuid |-> LocalUuid, content |-> c]
       /\ localItems = mapPayloadToLocalItem(<<>>, notePayload)
  /\ \E n \in 1..MaxBatch : importBatch \in [1..n -> ImportPayloads]
  /\ importsDone = 0
  /\ pair = <<>>
  /\ alternation = [called |-> FALSE, of |-> 0, as |-> 0, referrers |-> {}]

NextImport == Import

SpecImport == InitImport /\ [][NextImport]_vars


(* ----------------------- import of related items ----------------------- *)
\* the uuids of the note and of the tag of createRelatedNoteTagPairPayload
NoteUuid == 1

TagUuid == 2

\* the content of a note and of a tag: a title, and the uuids referenced
RelatedContent(title, references) == [title |-> title, references |-> references]

NoteContents == {RelatedContent(t, {}) : t \in Contents}

TagContents == {RelatedContent(t, r) : t \in Contents, r \in SUBSET {NoteUuid}}

\* the raw payloads of a note or of a tag
PairPayloads ==
  [uuid : {NoteUuid}, content : NoteContents] \cup [uuid : {TagUuid}, content : TagContents]

\* the duplicate of an item is mapped: every item that references the item
\* also references its duplicate
mapDuplicate(its, payload, newUuid) ==
  LET referencing == [k \in DOMAIN its |->
        IF payload.uuid \in its[k].content.references
        THEN [its[k] EXCEPT !.content.references = @ \cup {newUuid}]
        ELSE its[k]]
  IN Append(referencing, ImportedItem(newUuid, payload.content, payload.uuid))

\* the decision on one incoming payload, against the given local contents
importRelatedPayload(its, snapshot, payload) ==
  LET local == findItem(snapshot, payload.uuid)
  IN IF local = <<>> THEN mapPayloadToLocalItem(its, payload)
     ELSE IF local[1].content = payload.content THEN its
     ELSE mapDuplicate(its, payload, GenerateUuid(its))

\* every payload is decided against the items as they are when its turn comes
RECURSIVE importAgainstCurrent(_, _, _)
importAgainstCurrent(its, snapshot, batch) ==
  IF batch = <<>> THEN its
  ELSE LET next == importRelatedPayload(its, its, Head(batch))
       IN importAgainstCurrent(next, next, Tail(batch))

\* every payload is decided against the snapshot that was taken before the
\* batch
RECURSIVE importRelatedPayloads(_, _, _)
importRelatedPayloads(its, snapshot, batch) ==
  IF batch = <<>> THEN its
  ELSE importRelatedPayloads(importRelatedPayload(its, snapshot, Head(batch)),
                             snapshot, Tail(batch))

\* modelManager.importItemsFromRaw(importBatch), of notes and tags
ImportRelated ==
  /\ importsDone < MaxImports
  /\ localItems' = importRelatedPayloads(localItems, localItems, importBatch)
  /\ importsDone' = importsDone + 1
  /\ UNCHANGED <<importBatch, notePayload, pair, alternation>>
  /\ ImportFrame

\* a note and a tag, mapped from their payloads, and a batch to import
InitRelated ==
  /\ CoreIdle
  /\ EngineInit
  /\ IntegrityInit
  /\ ProtoInit
  /\ KeysInit
  /\ ConflictInit
  /\ PayloadInit
  /\ HashInit
  /\ LoadInit
  /\ SingletonInit
  /\ CryptoInit
  /\ TrackInit
  /\ notePayload = <<>>
  /\ \E n \in NoteContents, t \in TagContents :
       pair = <<[uuid |-> NoteUuid, content |-> n], [uuid |-> TagUuid, content |-> t]>>
  /\ localItems = mapPayloadToLocalItem(mapPayloadToLocalItem(<<>>, pair[1]), pair[2])
  /\ \E n \in 1..MaxPairBatch : importBatch \in [1..n -> PairPayloads]
  /\ importsDone = 0
  /\ alternation = [called |-> FALSE, of |-> 0, as |-> 0, referrers |-> {}]

NextRelated == ImportRelated

SpecRelated == InitRelated /\ [][NextRelated]_vars


(* ------------------------- alternateUuidForItem ------------------------ *)
\* an item of the model manager with the uuids its content references
ReferencingItem(uuid, references, deleted, dirty) ==
  [uuid |-> uuid, references |-> references, deleted |-> deleted, dirty |-> dirty]

\* the inverse-reference index: the uuids of the items that reference uuid
referrersOf(its, uuid) == {its[k].uuid : k \in {j \in DOMAIN its : uuid \in its[j].references}}

\* the item gets a new uuid and the old item is marked deleted, but the
\* items that reference it are left as they are
alternateWithoutReferrers(its, uuid, newUuid) ==
  LET old == findItem(its, uuid)[1]
      marked == [k \in DOMAIN its |->
                   IF its[k].uuid = uuid
                   THEN [its[k] EXCEPT !.deleted = TRUE, !.dirty = TRUE] ELSE its[k]]
  IN Append(marked, ReferencingItem(newUuid, old.references, FALSE, TRUE))

\* alternateUuidForItem(item): a copy of the item under a fresh uuid, every
\* reference to the old uuid rewritten to the new one, and the old item
\* marked deleted (and dirty, so that the deletion is synced)
alternateUuidForItem(its, uuid, newUuid) ==
  LET old == findItem(its, uuid)[1]
      rewritten == [k \in DOMAIN its |->
                      IF uuid \in its[k].references
                      THEN [its[k] EXCEPT !.references = (@ \ {uuid}) \cup {newUuid}]
                      ELSE its[k]]
      marked == [k \in DOMAIN its |->
                   IF its[k].uuid = uuid
                   THEN [rewritten[k] EXCEPT !.deleted = TRUE, !.dirty = TRUE]
                   ELSE rewritten[k]]
  IN Append(marked, ReferencingItem(newUuid, old.references, FALSE, TRUE))

\* modelManager.alternateUuidForItem(item), of an item that is not deleted
AlternateUuid(k) ==
  /\ importsDone < MaxAlternations
  /\ ~ localItems[k].deleted
  /\ LET uuid == localItems[k].uuid
         newUuid == Len(localItems) + 1
     IN /\ localItems' = alternateUuidForItem(localItems, uuid, newUuid)
        /\ alternation' = [called |-> TRUE, of |-> uuid, as |-> newUuid,
                           referrers |-> referrersOf(localItems, uuid)]
  /\ importsDone' = importsDone + 1
  /\ UNCHANGED <<importBatch, notePayload, pair>>
  /\ ImportFrame

\* items that reference one another, none itself, none dirty
InitAlternate ==
  /\ CoreIdle
  /\ EngineInit
  /\ IntegrityInit
  /\ ProtoInit
  /\ KeysInit
  /\ ConflictInit
  /\ PayloadInit
  /\ HashInit
  /\ LoadInit
  /\ SingletonInit
  /\ CryptoInit
  /\ TrackInit
  /\ notePayload = <<>>
  /\ pair = <<>>
  /\ importBatch = <<>>
  /\ importsDone = 0
  /\ alternation = [called |-> FALSE, of |-> 0, as |-> 0, referrers |-> {}]
  /\ \E n \in 1..MaxReferencing :
       \E references \in [1..n -> SUBSET (1..n)] :
         /\ \A u \in 1..n : u \notin references[u]
         /\ localItems = [u \in 1..n |-> ReferencingItem(u, references[u], FALSE, FALSE)]

NextAlternate == \E k \in DOMAIN localItems : AlternateUuid(k)

SpecAlternate == InitAlternate /\ [][NextAlternate]_vars


(* ------------------------ protocol version 004 ------------------------- *)
\* the uuids of the items whose payloads are encrypted
CryptoUuids == {1, 2}

CryptoKeys == 1..MaxCryptoKeys

\* what a failed decryption returns
DecryptionFailed == [failed |-> TRUE]

\* the additional authenticated data of an item: its uuid and the version
aadOf(uuid) == [u |-> uuid, v |-> V004]

\* encryptString: authenticated encryption of plaintext under rawKey, nonce
\* and aad; the ciphertext stands for all four
encryptString(plaintext, rawKey, nonce, aad) ==
  [plaintext |-> plaintext, rawKey |-> rawKey, nonce |-> nonce, aad |-> aad]

\* decryptString: the plaintext, if key, nonce and aad are those of the
\* encryption, and nothing otherwise
decryptString(ciphertext, rawKey, nonce, aad) ==
  IF ciphertext.rawKey = rawKey /\ ciphertext.nonce = nonce /\ ciphertext.aad = aad
  THEN [failed |-> FALSE, plaintext |-> ciphertext.plaintext]
  ELSE DecryptionFailed

\* the wire string "004:" nonce ":" ciphertext ":" aad
wireString(nonce, ciphertext, aad) ==
  [version |-> V004, nonce |-> nonce, ciphertext |-> ciphertext, aad |-> aad]

\* the content key made for the n-th encryption
ContentKey(n) == MaxCryptoKeys + n

\* generateEncryptionParameters of 004 for the n-th encryption: the content
\* under a new content key, the content key under the items-key, both with
\* the aad of the payload's uuid
generateEncryptionParameters004(payload, key, n) ==
  LET aad == aadOf(payload.uuid)
      contentKey == ContentKey(n)
  IN [uuid |-> payload.uuid,
      content |-> wireString(n, encryptString(payload.content, contentKey, n, aad), aad),
      enc_item_key |-> wireString(n, encryptString(contentKey, key, n, aad), aad),
      items_key_id |-> key,
      errorDecrypting |-> FALSE]

\* the two decryptions of generateDecryptedParameters, given the aad that
\* each is made with
decryptedWith(encryptedParameters, key, keyAad, contentAad) ==
  LET wrapped == encryptedParameters.enc_item_key
      itemKey == decryptString(wrapped.ciphertext, key, wrapped.nonce, keyAad)
      string == encryptedParameters.content
      content == decryptString(string.ciphertext, itemKey.plaintext, string.nonce, contentAad)
  IN IF itemKey.failed THEN [encryptedParameters EXCEPT !.errorDecrypting = TRUE]
     ELSE IF content.failed THEN [encryptedParameters EXCEPT !.errorDecrypting = TRUE]
     ELSE [encryptedParameters EXCEPT !.content = content.plaintext,
                                      !.errorDecrypting = FALSE]

\* decryption with the aad that the strings carry
generateDecryptedParametersByCarriedAad(encryptedParameters, key) ==
  decryptedWith(encryptedParameters, key,
                encryptedParameters.enc_item_key.aad, encryptedParameters.content.aad)

\* generateDecryptedParameters of 004: both decryptions are made with the
\* aad of the uuid of the payload that is decrypted
generateDecryptedParameters004(encryptedParameters, key) ==
  decryptedWith(encryptedParameters, key,
                aadOf(encryptedParameters.uuid), aadOf(encryptedParameters.uuid))

\* all but the encryptions
CryptoFrame == UNCHANGED <<baseVars, payloadVars, hashVars, loadVars, singletonVars, importVars, trackVars>>

\* a payload is encrypted under an items-key
EncryptParameters(uuid, content, key) ==
  /\ ~ opened.called
  /\ Len(vault) < MaxSealed
  /\ LET payload == [uuid |-> uuid, content |-> content]
     IN vault' = Append(vault,
          [payload |-> payload, key |-> key,
           encrypted |-> generateEncryptionParameters004(payload, key, Len(vault) + 1)])
  /\ UNCHANGED opened
  /\ CryptoFrame

\* a payload is decrypted that has the content string of the i-th and the
\* enc_item_key of the j-th encryption, under any uuid and with any key
DecryptParameters(i, j, uuid, key) ==
  /\ ~ opened.called
  /\ LET given == [vault[i].encrypted EXCEPT
                     !.uuid = uuid, !.enc_item_key = vault[j].encrypted.enc_item_key]
     IN opened' = [called |-> TRUE, content |-> i, key |-> j, uuid |-> uuid,
                   keyGiven |-> key,
                   result |-> generateDecryptedParameters004(given, key)]
  /\ UNCHANGED vault
  /\ CryptoFrame

InitCrypto ==
  /\ CoreIdle
  /\ EngineInit
  /\ IntegrityInit
  /\ ProtoInit
  /\ KeysInit
  /\ ConflictInit
  /\ PayloadInit
  /\ HashInit
  /\ LoadInit
  /\ SingletonInit
  /\ ImportInit
  /\ CryptoInit
  /\ TrackInit

NextCrypto ==
  \/ \E u \in CryptoUuids, c \in Contents, k \in CryptoKeys : EncryptParameters(u, c, k)
  \/ \E i, j \in DOMAIN vault, u \in CryptoUuids, k \in CryptoKeys :
       DecryptParameters(i, j, u, k)

SpecCrypto == InitCrypto /\ [][NextCrypto]_vars


(* ------------ items changed while their sync is in flight -------------- *)
NoteUuids == {1, 2}

\* an item that was never changed nor synced; remote is the content the
\* server holds for it
NewNote ==
  [content |-> 0, dirty |-> FALSE, dirtiedDate |-> 0, lastSyncBegan |-> 0,
   lastSyncEnd |-> 0, remote |-> 0]

\* modelManager.getDirtyItems()
DirtyNotes(its) == {u \in DOMAIN its : its[u].dirty}

\* modelManager.setItemsDirty([item]) after a change of its content
setItemDirty(item, date) ==
  [item EXCEPT !.content = @ + 1, !.dirty = TRUE, !.dirtiedDate = date]

\* modelManager.setItemsProperties({items, properties: {lastSyncBegan: beginDate}})
setItemsProperties(its, uuids, beginDate) ==
  [u \in DOMAIN its |->
     IF u \in uuids THEN [its[u] EXCEPT !.lastSyncBegan = beginDate] ELSE its[u]]

\* the delta of the saved payloads of a response: the local copy of each is
\* marked dirty = false and lastSyncEnd = now; a saved payload has no content
DeltaRemoteSaved(base, savedPayloads, date) ==
  [i \in DOMAIN savedPayloads |->
     [uuid |-> savedPayloads[i].uuid, dirty |-> FALSE, lastSyncEnd |-> date]]

\* modelManager.mapCollectionToLocalItems for a collection of saved
\* payloads: the fields of each payload are set on its item, whose content
\* is retained
mapSavedCollection(its, collection) ==
  LET mapped == {collection[i].uuid : i \in DOMAIN collection}
      Of(u)  == CHOOSE i \in DOMAIN collection : collection[i].uuid = u
  IN [u \in DOMAIN its |->
        IF u \in mapped
        THEN [its[u] EXCEPT !.dirty = collection[Of(u)].dirty,
                            !.lastSyncEnd = collection[Of(u)].lastSyncEnd]
        ELSE its[u]]

\* what the server holds after it has saved the payloads of a request
savedByServer(its, payloads) ==
  LET sent == {payloads[i].uuid : i \in DOMAIN payloads}
      Of(u) == CHOOSE i \in DOMAIN payloads : payloads[i].uuid = u
  IN [u \in DOMAIN its |->
        IF u \in sent THEN [its[u] EXCEPT !.remote = payloads[Of(u)].content]
        ELSE its[u]]

NoUpload == [pc |-> "idle", items |-> {}, payloads |-> <<>>]

TrackFrame == UNCHANGED <<baseVars, payloadVars, hashVars, loadVars, singletonVars,
                          importVars, cryptoVars, positionVars>>

(* the application changes the content of item u and marks it dirty *)
EditNote(u) ==
  /\ notes[u].content < MaxNoteEdits
  /\ notes' = [notes EXCEPT ![u] = setItemDirty(@, clock)]
  /\ clock' = clock + 1
  /\ UNCHANGED upload
  /\ TrackFrame

(* sync(), to the awaits of the pre-sync save: the dirty items are read and *)
(* their payloads are made.  No other sync is in progress.                  *)
CollectPayloads ==
  /\ upload.pc = "idle"
  /\ DirtyNotes(notes) # {}
  /\ LET uuids == SetToSeq(DirtyNotes(notes))
     IN upload' = [pc |-> "collected", items |-> DirtyNotes(notes),
                   payloads |-> [i \in 1..Len(uuids) |->
                                   [uuid |-> uuids[i],
                                    content |-> notes[uuids[i]].content]]]
  /\ UNCHANGED <<notes, clock>>
  /\ TrackFrame

(* sync(), from setDidBegin() to await operation.run(): the items read are  *)
(* stamped with lastSyncBegan and the request with their payloads is sent   *)
BeginUpload ==
  /\ upload.pc = "collected"
  /\ notes' = setItemsProperties(notes, upload.items, clock)
  /\ upload' = [upload EXCEPT !.pc = "inflight"]
  /\ clock' = clock + 1
  /\ TrackFrame

(* handleSuccessServerResponse for the response of the request: the server *)
(* has saved every payload sent; the saved payloads are resolved against   *)
(* the master collection and mapped onto the items                         *)
SavedResponse ==
  /\ upload.pc = "inflight"
  /\ LET masterCollection == notes
         collection == DeltaRemoteSaved(masterCollection, upload.payloads, clock)
     IN notes' = savedByServer(mapSavedCollection(notes, collection), upload.payloads)
  /\ upload' = NoUpload
  /\ clock' = clock + 1
  /\ TrackFrame

InitSaved ==
  /\ CoreIdle
  /\ EngineInit
  /\ IntegrityInit
  /\ ProtoInit
  /\ KeysInit
  /\ ConflictInit
  /\ PayloadInit
  /\ HashInit
  /\ LoadInit
  /\ SingletonInit
  /\ ImportInit
  /\ CryptoInit
  /\ PositionInit
  /\ notes = [u \in NoteUuids |-> NewNote]
  /\ upload = NoUpload
  /\ clock = 1

NextSaved ==
  \/ \E u \in NoteUuids : EditNote(u)
  \/ CollectPayloads
  \/ BeginUpload
  \/ SavedResponse

SpecSaved == InitSaved /\ [][NextSaved]_vars


(* ------------- the sync position and the response handlers ------------- *)
Tokens(lastSyncToken, paginationToken) ==
  [lastSyncToken |-> lastSyncToken, paginationToken |-> paginationToken]

NoTokens == Tokens(0, 0)

\* getLastSyncToken() and getPaginationToken(): a token that memory does not
\* hold is read from storage into memory
afterGetTokens(p) ==
  [p EXCEPT !.memory =
     Tokens(IF p.memory.lastSyncToken # 0 THEN p.memory.lastSyncToken
            ELSE p.storage.lastSyncToken,
            IF p.memory.paginationToken # 0 THEN p.memory.paginationToken
            ELSE p.storage.paginationToken)]

\* setLastSyncToken(response.lastSyncToken) and
\* setPaginationToken(response.paginationToken): memory and storage; the
\* stored pagination token is removed when the response has none
setPositionTokens(p, response) ==
  [memory  |-> Tokens(response.lastSyncToken, response.paginationToken),
   storage |-> Tokens(response.lastSyncToken, response.paginationToken)]

\* the response of the server to a request: a successful one carries a new
\* lastSyncToken, and a paginationToken when more is to be retrieved; one
\* with an error carries neither
PositionedResponse(status, more, issued) ==
  [status          |-> status,
   lastSyncToken   |-> IF status = 200 THEN issued + 1 ELSE 0,
   paginationToken |-> IF status = 200 /\ more THEN issued + 1 ELSE 0]

PositionFrame ==
  UNCHANGED <<engineVars, integrityVars, protoVars, keyVars, conflictVars, payloadVars,
              hashVars, loadVars, singletonVars, importVars, cryptoVars, savedVars>>

(* sync(), from await setItemsProperties() to await operation.run(): the   *)
(* operation is made with the manager's tokens and sends its first request *)
PositionStart(c) ==
  /\ StartOperation(c)
  /\ position' = afterGetTokens(position)
  /\ opPosition' = (c :> [tokens |-> position'.memory, request |-> position'.memory,
                          afterSignOut |-> signOut.pc = "completed"]) @@ opPosition
  /\ UNCHANGED <<handling, server, signOut>>
  /\ PositionFrame

(* run(), resumed by the response: the operation takes the tokens of the   *)
(* response, with an error or not, and calls the receiver without waiting  *)
(* for it; handleErrorServerResponse has no await and changes no token;    *)
(* handleSuccessServerResponse sets the manager's tokens and is then at an *)
(* await; run() goes on and sends the next request or returns.             *)
PositionResponse(c, status, more) ==
  /\ ServerResponse(c, IF status = 200 /\ more THEN 1 ELSE 0, FALSE)
  /\ LET response == PositionedResponse(status, more, server.issued)
         tokens   == Tokens(response.lastSyncToken, response.paginationToken)
     IN /\ hasError(response) => ~ more
        /\ opPosition' = [opPosition EXCEPT
                            ![c].tokens = tokens,
                            ![c].request = IF op'[c].pc = "inflight" THEN tokens ELSE @]
        /\ IF hasError(response)
           THEN UNCHANGED <<position, handling, server>>
           ELSE /\ position' = setPositionTokens(position, response)
                /\ handling' = Append(handling, [call |-> c, round |-> op'[c].responses])
                /\ server' = [issued |-> server.issued + 1, granted |-> tokens]
        /\ signOut' = IF signOut.pc = "completed" /\ opPosition[c].afterSignOut
                      THEN [signOut EXCEPT !.answered = TRUE]
                      ELSE signOut
  /\ PositionFrame

(* handleSuccessServerResponse, from its last await to its end: the        *)
(* collections are mapped onto the items and persisted                     *)
HandlerEnd(i) ==
  /\ i \in DOMAIN handling
  /\ handling' = SubSeq(handling, 1, i - 1) \o SubSeq(handling, i + 1, Len(handling))
  /\ UNCHANGED <<coreVars, position, opPosition, server, signOut>>
  /\ PositionFrame

(* sync(), from the return of await operation.run() to its end *)
PositionEnd(c) ==
  /\ SyncEnd(c)
  /\ opPosition' = [d \in DOMAIN opPosition \ {c} |-> opPosition[d]]
  /\ UNCHANGED <<position, handling, server, signOut>>
  /\ PositionFrame

(* handleSignOut(), to the first await of clearSyncPositionTokens(): the   *)
(* state and the status are reset (the status may or may not keep          *)
(* syncInProgress), the queues are emptied, the tokens in memory are       *)
(* cleared and the stored lastSyncToken is removed                         *)
SignOutBegin(reset) ==
  /\ signOut.pc = "no"
  /\ resolveQueue' = <<>>
  /\ spawnQueue' = <<>>
  /\ syncing' = IF reset THEN FALSE ELSE syncing
  /\ position' = [memory  |-> NoTokens,
                  storage |-> [position.storage EXCEPT !.lastSyncToken = 0]]
  /\ signOut' = [signOut EXCEPT !.pc = "clearing"]
  /\ UNCHANGED <<calls, databaseLoaded, op, items, saved, lastPreSyncSaveDate, now,
                 budget, pages, handlers, opPosition, handling, server>>
  /\ PositionFrame

(* handleSignOut(), from that await to its end: the stored paginationToken *)
(* is removed                                                              *)
SignOutEnd ==
  /\ signOut.pc = "clearing"
  /\ position' = [position EXCEPT !.storage.paginationToken = 0]
  /\ signOut' = [pc |-> "completed",
                 queuesEmpty |-> resolveQueue = <<>> /\ spawnQueue = <<>>,
                 answered |-> FALSE]
  /\ UNCHANGED <<coreVars, opPosition, handling, server>>
  /\ PositionFrame

(* The database is loaded; a first sync() has found no dirty item, or more *)
(* than one request holds, and has passed the check of syncInProgress; an  *)
(* earlier session has left no lastSyncToken in storage, or one.           *)
InitPosition ==
  /\ EngineInit
  /\ IntegrityInit
  /\ ProtoInit
  /\ KeysInit
  /\ ConflictInit
  /\ PayloadInit
  /\ HashInit
  /\ LoadInit
  /\ SingletonInit
  /\ ImportInit
  /\ CryptoInit
  /\ SavedInit
  /\ items = [u \in Uuids |-> [dirty |-> FALSE, version |-> 0, dirtiedDate |-> 0]]
  /\ \E n \in {0, upLimit + 1} :
        calls = << [NewCall(Undefined, Undefined) EXCEPT
                      !.pc = "begun",
                      !.payloads = [i \in 1..n |->
                                      [uuid |-> i, version |-> 0, dirtiedDate |-> 0]]] >>
  /\ resolveQueue = <<>>
  /\ spawnQueue = <<>>
  /\ syncing = TRUE
  /\ databaseLoaded = TRUE
  /\ op = <<>>
  /\ saved = {}
  /\ lastPreSyncSaveDate = 0
  /\ now = 1
  /\ budget = MaxPositionCalls
  /\ pages = 0
  /\ handlers = 0
  /\ \E t \in {0, 1} :
        /\ position = [memory |-> NoTokens, storage |-> Tokens(t, 0)]
        /\ server = [issued |-> t, granted |-> Tokens(t, 0)]
  /\ opPosition = <<>>
  /\ handling = <<>>
  /\ signOut = [pc |-> "no", queuesEmpty |-> FALSE, answered |-> FALSE]

NextPosition ==
  \/ SyncCall(Undefined, Undefined) /\ UNCHANGED auxVars
  \/ \E c \in DOMAIN calls : PreSyncSave(c) /\ UNCHANGED auxVars
  \/ \E c \in DOMAIN calls : Gate(c) /\ UNCHANGED auxVars
  \/ \E c \in DOMAIN calls : PositionStart(c)
  \/ \E c \in DOMAIN calls, status \in {200, 500}, more \in BOOLEAN :
        PositionResponse(c, status, more)
  \/ \E i \in DOMAIN handling : HandlerEnd(i)
  \/ \E c \in DOMAIN calls : PositionEnd(c)

SpecPosition == InitPosition /\ [][NextPosition]_vars

NextSignOut ==
  \/ \E ts \in {Undefined, TIMING_STRATEGY_FORCE_SPAWN_NEW} :
        SyncCall(ts, Undefined) /\ UNCHANGED auxVars
  \/ \E c \in DOMAIN calls : PreSyncSave(c) /\ UNCHANGED auxVars
  \/ \E c \in DOMAIN calls : Gate(c) /\ UNCHANGED auxVars
  \/ \E c \in DOMAIN calls : PositionStart(c)
  \/ \E c \in DOMAIN calls, status \in {200, 500}, more \in BOOLEAN :
        PositionResponse(c, status, more)
  \/ \E i \in DOMAIN handling : HandlerEnd(i)
  \/ \E c \in DOMAIN calls : PositionEnd(c)
  \/ \E h \in DOMAIN calls : SpawnSettle(h) /\ UNCHANGED auxVars
  \/ \E reset \in BOOLEAN : SignOutBegin(reset)
  \/ SignOutEnd

SpecSignOut == InitPosition /\ [][NextSignOut]_vars

(* ======================================================================= *)
(*                               Properties                                *)
(* ======================================================================= *)
\* the ids a call can have when sync() is called MaxQueueCalls times from
\* outside: at most one further sync() is made for each call that waits
CallIds == 1..(2 * MaxQueueCalls)

\* the step is the end of call c's sync: await operation.run() has returned
IsSyncEnd(c) ==
  /\ c \in DOMAIN calls
  /\ calls[c].pc = "op"
  /\ calls'[c].pc \in {"done", "chained"}

\* the promise of call q is settled
Settled(q) == q \in DOMAIN calls /\ calls[q].pc = "done"

\* call q waits in one of the two queues
Queued(q) == q \in DOMAIN calls /\ calls[q].pc = "queued"

\* call c is between the start and the end of its operation's run()
InRun(c) == c \in DOMAIN op /\ op[c].pc # "returned"

(* C1: in every reachable state at most one sync operation is between the   *)
(* start and the end of its run(), whatever the interleaving of the sync()  *)
(* calls, their strategies and modes, and the follow-up syncs.              *)
C1_OneOperationRuns == Cardinality({c \in DOMAIN op : InRun(c)}) <= 1

\* an operation runs while another call, which found it in progress, waits
C1_Witness ==
  \E c \in DOMAIN op, q \in DOMAIN calls :
     /\ op[c].pc = "inflight"
     /\ calls[q].pc = "queued"
     /\ calls[q].why = "inProgress"

\* call c passes the check of line 384 while it must wait
C2_QueuedStep(c) ==
  (/\ calls[c].pc = "gate"
   /\ calls'[c].pc # "gate"
   /\ (syncing \/ ~ databaseLoaded))
  => /\ op' = op
     /\ calls'[c].pc = "queued"
     /\ IF calls[c].timingStrategy \in {Undefined, TIMING_STRATEGY_RESOLVE_ON_NEXT}
        THEN resolveQueue' = Append(resolveQueue, c) /\ spawnQueue' = spawnQueue
        ELSE spawnQueue' = Append(spawnQueue, c) /\ resolveQueue' = resolveQueue

(* C2: a sync() call that finds a sync in progress, or the database not     *)
(* loaded, makes no operation and sends no request; with ResolveOnNext or   *)
(* no strategy it appends exactly itself to resolveQueue, with ForceSpawnNew*)
(* to spawnQueue, and leaves the other queue unchanged.  A call waiting in  *)
(* a queue never owns an operation.                                         *)
C2_WaitingCallsMakeNoOperation ==
  [][/\ \A c \in DOMAIN calls : C2_QueuedStep(c)
     /\ \A c \in DOMAIN calls' :
           calls'[c].pc \in {"queued", "popped"} => c \notin DOMAIN op']_vars

\* both queues hold a call
C2_Witness == resolveQueue # <<>> /\ spawnQueue # <<>>

(* C3, as claimed: every caller that is in resolveQueue when the executing  *)
(* sync ends is resolved at that end.                                       *)
C3_Claimed ==
  [][\A c \in DOMAIN calls :
       IsSyncEnd(c) => \A q \in Range(resolveQueue) : calls'[q].pc = "done"]_vars

(* C3, amended: the callers that are in resolveQueue when a sync passes the *)
(* in-progress check (its snapshot) are all resolved, in one step, when     *)
(* that sync ends, and no other queued caller is resolved by that step.     *)
C3_SnapshotResolvedTogether ==
  [][\A c \in DOMAIN calls :
       IsSyncEnd(c) =>
         /\ \A q \in Range(calls[c].inTime) :
               calls[q].pc = "queued" /\ calls'[q].pc = "done"
         /\ \A q \in DOMAIN calls :
               (calls[q].pc = "queued" /\ calls'[q].pc = "done")
                  => q \in Range(calls[c].inTime)]_vars

\* a sync that will resolve two callers at its end is running
C3_Witness ==
  \E c \in DOMAIN calls : calls[c].pc = "op" /\ Len(calls[c].inTime) >= 2

\* the snapshot of a sync that has begun does not change
C4_SnapshotFixed ==
  \A c \in DOMAIN calls :
     (calls[c].pc \in {"begun", "op"} /\ calls'[c].pc \in {"begun", "op"})
        => calls'[c].inTime = calls[c].inTime

\* a caller that is not in the snapshot of the sync that ends stays queued
\* and a sync() call is made
C4_LateCallerDeferred ==
  \A c \in DOMAIN calls :
     IsSyncEnd(c) =>
       \A q \in Range(resolveQueue) \ Range(calls[c].inTime) :
          /\ calls'[q].pc = "queued"
          /\ q \in Range(resolveQueue')
          /\ Len(calls') > Len(calls)
          /\ calls'[Len(calls')].pc = "called"

(* C4: the callers a round resolves are fixed before it begins; a caller    *)
(* put in resolveQueue during the round is not resolved at its end, stays   *)
(* in resolveQueue, has a fresh sync() made, and is resolved later.         *)
C4_LateCallersWaitForNextRound ==
  /\ [][C4_SnapshotFixed /\ C4_LateCallerDeferred]_vars
  /\ \A q \in CallIds :
        (Queued(q) /\ q \in Range(resolveQueue) /\ calls[q].why = "inProgress")
           ~> Settled(q)

\* a round has ended and left a caller, enqueued during it, in resolveQueue
C4_Witness ==
  \E q \in DOMAIN calls :
     /\ q \in Range(resolveQueue) /\ calls[q].why = "inProgress"
     /\ ~ syncing
     /\ \E c \in DOMAIN calls : c < q /\ calls[c].pc = "done"

\* the end of a sync whose spawnQueue is not empty
C5_PopsOne ==
  \A c \in DOMAIN calls :
     (IsSyncEnd(c) /\ spawnQueue # <<>>) =>
        LET h == Head(spawnQueue)
            n == Len(calls) + 1
        IN /\ spawnQueue' = Tail(spawnQueue)
           /\ Len(calls') = n + (IF calls'[c].pc = "chained" THEN 1 ELSE 0)
           /\ calls'[n].pc = "called"
           /\ calls'[n].timingStrategy = TIMING_STRATEGY_FORCE_SPAWN_NEW
           /\ calls'[h].pc = "popped"
           /\ calls'[h].link = n

\* the promise of a popped entry is settled after the sync() made for it
C5_SettledAfterItsSync ==
  \A h \in DOMAIN calls :
     (calls[h].pc = "popped" /\ calls'[h].pc # "popped")
        => /\ calls'[h].pc = "done"
           /\ calls[calls[h].link].pc = "done"

(* C5: a sync that ends with a non-empty spawnQueue removes exactly its     *)
(* oldest entry, makes exactly one sync() call for it (with ForceSpawnNew), *)
(* leaves the other entries queued in their order, makes no call for the    *)
(* resolve queue, and the entry's promise is settled only after the call    *)
(* made for it has returned.                                                *)
C5_SpawnQueuePopsOne == [][C5_PopsOne /\ C5_SettledAfterItsSync]_vars

\* an entry was popped, the sync made for it is not finished, another waits
C5_Witness ==
  \E h \in DOMAIN calls :
     /\ calls[h].pc = "popped"
     /\ calls[calls[h].link].pc # "done"
     /\ spawnQueue # <<>>

(* C6, as claimed: every call that was put in resolveQueue or spawnQueue    *)
(* eventually has its promise settled, provided the database load completes *)
(* and every request is answered.                                           *)
C6_Claimed ==
  \A q \in CallIds :
     Queued(q) ~> Settled(q)

\* the payloads of a list of requests, in the order they were sent
RECURSIVE Flatten(_)
Flatten(requests) ==
  IF requests = <<>> THEN <<>> ELSE Head(requests) \o Flatten(Tail(requests))

\* the operation that is examined on its own
TheOp == op[1]

(* C7, as claimed: when run() has finished, every payload given to the      *)
(* operation has been sent in exactly one request, in the original order,   *)
(* at most upLimit per request, with one response signal per request.       *)
C7_Claimed ==
  TheOp.pc = "returned" =>
     /\ Flatten(TheOp.requests) = TheOp.given
     /\ \A i \in DOMAIN TheOp.requests : Len(TheOp.requests[i]) <= upLimit
     /\ TheOp.signals = Len(TheOp.requests)

(* C7, amended: at every point the payloads sent so far followed by the     *)
(* pending ones are the payloads given, so each payload is sent in at most  *)
(* one request and in the original order; a request carries at most upLimit *)
(* payloads; one response signal is emitted per answered request; and when  *)
(* run() finishes without the operation having been cancelled, every        *)
(* payload has been sent.                                                   *)
C7_SentOnceInOrder ==
  /\ Flatten(TheOp.requests) \o TheOp.pendingPayloads = TheOp.given
  /\ \A i \in DOMAIN TheOp.requests : Len(TheOp.requests[i]) <= upLimit
  /\ TheOp.signals = Len(TheOp.requests) - (IF TheOp.pc = "inflight" THEN 1 ELSE 0)
  /\ (TheOp.pc = "returned" /\ ~ TheOp.cancleled) => TheOp.pendingPayloads = <<>>

\* run() has finished after sending more than MaxBatches full requests' worth
C7_Witness ==
  /\ TheOp.pc = "returned"
  /\ Len(TheOp.given) > MaxBatches * upLimit
  /\ Len(TheOp.requests) = MaxBatches + 1
  /\ Flatten(TheOp.requests) = TheOp.given

\* the step handles a response of the operation
IsResponse == TheOp.pc = "inflight" /\ TheOp'.responses = TheOp.responses + 1

\* the step sends a request of the operation
IsNewRound == Len(TheOp'.requests) = Len(TheOp.requests) + 1

(* C8, as claimed: after a response another round is started exactly when   *)
(* payloads are pending or the response carried a paginationToken, and      *)
(* run() finishes otherwise; run() terminates.                              *)
C8_Claimed ==
  /\ [][IsResponse =>
          /\ IsNewRound <=> (Len(TheOp.pendingPayloads) > 0 \/ TheOp'.paginationToken # 0)
          /\ TheOp'.pc = "returned" <=> ~ IsNewRound]_vars
  /\ <>(TheOp.pc = "returned")

(* C8, amended: after a response another round is started exactly when      *)
(* payloads are pending or the response carried a paginationToken and the   *)
(* operation has not been cancelled; otherwise run() finishes; run()        *)
(* terminates once the responses carry no paginationToken any more.         *)
C8_LoopsWhileNeededAndNotCancelled ==
  /\ [][IsResponse =>
          /\ IsNewRound <=>
                /\ (Len(TheOp.pendingPayloads) > 0 \/ TheOp'.paginationToken # 0)
                /\ ~ TheOp.cancleled
          /\ TheOp'.pc = "returned" <=> ~ IsNewRound]_vars
  /\ <>(TheOp.pc = "returned")

\* a round was started for a paginationToken alone
C8_Witness ==
  /\ TheOp.pc = "inflight"
  /\ Len(TheOp.requests) >= 2
  /\ TheOp.requests[Len(TheOp.requests)] = <<>>
  /\ TheOp.paginationToken # 0

(* C9, as claimed: tryCancel() while a request is in flight returns false   *)
(* and leaves the operation uncancelled; between rounds (after              *)
(* unlockCancelation, while the receiver runs) it returns true.             *)
C9_Claimed ==
  \A i \in DOMAIN TheOp.cancelLog :
     /\ TheOp.cancelLog[i].at = "inflight" =>
           (~ TheOp.cancelLog[i].ret /\ ~ TheOp.cancleled)
     /\ TheOp.cancelLog[i].at = "signalled" => TheOp.cancelLog[i].ret

(* C10: every payload that is in a request of a sync operation was handed   *)
(* to the persistent store, marked dirty, by the pre-sync save of the same  *)
(* sync() call before the request was sent.                                 *)
C10_SavedBeforeUpload ==
  \A c \in DOMAIN op :
     \A i \in DOMAIN op[c].requests :
        \A p \in Range(op[c].requests[i]) : p \in saved /\ p.dirty

\* a request that uploads an edited item is in flight
C10_Witness ==
  \E c \in DOMAIN op :
     /\ op[c].pc = "inflight"
     /\ op[c].requests[Len(op[c].requests)] # <<>>


(* ------------------------------ C20 ------------------------------------ *)
C20_Witness ==
  /\ format.intent = "LocalStoragePreferEncrypted"
  /\ ~ format.key
  /\ format.result = "DecryptedBareObject"

\* C20: payloadContentFormatForIntent returns EncryptedString for Sync,
\* LocalStorageEncrypted, FileEncrypted and LocalStoragePreferEncrypted with
\* a key; DecryptedBareObject for LocalStoragePreferEncrypted,
\* LocalStorageDecrypted and FileDecrypted without a key; and
\* DecryptedBase64String for Sync without a key.
C20_FormatTable ==
  format.intent # "" =>
    /\ ( /\ format.key
         /\ format.intent \in {"Sync", "LocalStorageEncrypted", "FileEncrypted",
                               "LocalStoragePreferEncrypted"} )
       => format.result = "EncryptedString"
    /\ ( /\ ~ format.key
         /\ format.intent \in {"LocalStoragePreferEncrypted",
                               "LocalStorageDecrypted", "FileDecrypted"} )
       => format.result = "DecryptedBareObject"
    /\ (~ format.key /\ format.intent = "Sync")
       => format.result = "DecryptedBase64String"

(* ------------------------------ C17 ------------------------------------ *)
\* the elements payloadsByDecryptingPayloads tries to decrypt
Attempted(p) == p.kind \in {"encrypted", "corrupt", "badversion"}

C17_Witness ==
  /\ output.called /\ ~ output.throws /\ ~ output.threw
  /\ Len(input) = 2
  /\ Raises(input[1], itemsKeys)
  /\ ~ input[1].errorDecrypting
  /\ output.out[1].errorDecrypting
  /\ input[2].kind = "encrypted"
  /\ output.out[2].kind = "decrypted"

\* C17: without the throws flag, payloadsByDecryptingPayloads given payloads
\* and empty values returns a list of the same length whose i-th element is
\* for the i-th input (same uuid, or the same empty value); an input whose
\* decryption raises an error has errorDecrypting = true at its position,
\* and the inputs after it are still processed.
C17_SameLengthSameOrder ==
  ( /\ output.called
    /\ ~ output.throws
    /\ \A i \in DOMAIN input : input[i].kind # "nonpayload" )
  => /\ ~ output.threw
     /\ Len(output.out) = Len(input)
     /\ \A i \in DOMAIN input :
          /\ output.out[i].uuid = input[i].uuid
          /\ input[i].kind = "null" => output.out[i] = input[i]
          /\ Raises(input[i], itemsKeys) => output.out[i].errorDecrypting
          /\ (input[i].kind = "encrypted" /\ input[i].key \in itemsKeys)
             => output.out[i].kind = "decrypted"

(* ------------------------------ C19 ------------------------------------ *)
\* C19: every payload returned by a decryption has
\* errorDecryptingValueChanged = (its errorDecrypting differs from the
\* input's), and on every failure path (missing key, failure in the
\* operator, exception in the bulk decryption) errorDecrypting = true.
C19_Claimed ==
  (output.called /\ ~ output.threw) =>
    \A i \in DOMAIN input :
      Attempted(input[i]) =>
        /\ output.out[i].errorDecryptingValueChanged
             = (output.out[i].errorDecrypting # input[i].errorDecrypting)
        /\ ( \/ input[i].key \notin itemsKeys
             \/ input[i].kind # "encrypted" )
           => output.out[i].errorDecrypting


(* ------------------------------ C18 ------------------------------------ *)
\* C18: a payload whose items-key the key manager does not hold is decrypted
\* to a payload with waitingForKey = true, and once its items-key has arrived
\* an item marked waitingForKey ends decrypted and no longer waitingForKey.
C18_Claimed ==
  /\ [](\A t \in DOMAIN tasks : \A i \in DOMAIN tasks[t].payloads :
          (tasks[t].kind = "handler" /\ tasks[t].payloads[i].kind = "encrypted")
            => tasks[t].payloads[i].waitingForKey)
  /\ \A u \in KeyItems :
       ( /\ u \in DOMAIN modelItems
         /\ modelItems[u].waitingForKey
         /\ KeyOf(u) \in itemsKeys )
       ~> ( /\ u \in DOMAIN modelItems
            /\ ~ modelItems[u].waitingForKey
            /\ modelItems[u].kind = "decrypted" )


(* ------------------------- C14, C15, C16 ------------------------------- *)
\* the events notified in a step
NewEvents == SubSeq(events', Len(events) + 1, Len(events'))

\* in a step, the operation of call c is answered with a status in S
Answered(c, S) ==
  /\ c \in DOMAIN op
  /\ c \in DOMAIN opResponses'
  /\ Len(opResponses'[c]) = Len(ResponsesOf(c)) + 1
  /\ opResponses'[c][Len(opResponses'[c])].status \in S

\* the operation of call c was answered with an error
HadError(c) ==
  /\ c \in DOMAIN opResponses
  /\ \E i \in DOMAIN opResponses[c] : hasError(opResponses[c][i])

\* how often event name was notified for call c
RECURSIVE CountIn(_, _, _)
CountIn(log, name, c) ==
  IF log = <<>> THEN 0
  ELSE (IF Head(log) = [name |-> name, call |-> c] THEN 1 ELSE 0)
       + CountIn(Tail(log), name, c)

\* the sync() of call c has run its operation and has ended
Completed(c) ==
  /\ c \in DOMAIN calls
  /\ calls[c].pc \in {"done", "chained"}
  /\ c \in DOMAIN opResponses

\* C14: a response with status 401 makes the engine emit InvalidSession and
\* stops the sync loop: no further request is sent in that sync, even if
\* payloads are still pending.
C14_Claimed ==
  [][\A c \in DOMAIN op :
       Answered(c, {INVALID_SESSION_RESPONSE_STATUS}) =>
         /\ [name |-> "InvalidSession", call |-> c] \in Range(NewEvents)
         /\ c \in DOMAIN op'
         /\ Len(op'[c].requests) = Len(op[c].requests)]_vars

C15_Witness ==
  /\ HadError(1)
  /\ Settled(1)
  /\ 2 \in DOMAIN op
  /\ op[2].pc = "inflight"

\* C15: after any failed server round SyncError is emitted, and the engine
\* is left with no sync in progress, so that a later fresh sync() starts a
\* new operation.
C15_ErrorRoundEnds ==
  /\ [][\A c \in DOMAIN op :
          Answered(c, Statuses \ {200}) =>
            [name |-> "SyncError", call |-> c] \in Range(NewEvents)]_vars
  /\ \A c \in CallIds : HadError(c) ~> ~ syncing

C16_Witness ==
  /\ Completed(1)
  /\ Len(opResponses[1]) = 2
  /\ numberOfItemsInvolved(opResponses[1]) = majorChangeThreshold
  /\ CountIn(events, "MajorDataChange", 1) = 1

\* C16: every sync whose operation finished emits FullSyncCompleted exactly
\* once, and MajorDataChange, before it, exactly when the items involved
\* over all the responses of the operation are majorChangeThreshold (15) or
\* more.
C16_CompletionEvents ==
  \A c \in CallIds :
    IF Completed(c)
    THEN /\ CountIn(events, "FullSyncCompleted", c) = 1
         /\ CountIn(events, "MajorDataChange", c)
              = (IF numberOfItemsInvolved(opResponses[c]) >= 15 THEN 1 ELSE 0)
         /\ \A i, j \in DOMAIN events :
              ( /\ events[i] = [name |-> "MajorDataChange", call |-> c]
                /\ events[j] = [name |-> "FullSyncCompleted", call |-> c] )
              => i < j
    ELSE /\ CountIn(events, "FullSyncCompleted", c) = 0
         /\ CountIn(events, "MajorDataChange", c) = 0


(* ---------------------------- C12, C13 --------------------------------- *)
\* the integrity checks among the responses handled
IntegrityChecks(log) == SelectSeq(log, LAMBDA r : r.asked)

\* how many of the last integrity checks in a row found different hashes
RECURSIVE Discordant(_)
Discordant(log) ==
  IF log = <<>> \/ log[Len(log)].equal THEN 0
  ELSE 1 + Discordant(SubSeq(log, 1, Len(log) - 1))

\* a step in which a response that asked for an integrity check is handled
IsIntegrityCheck ==
  /\ Len(checks') = Len(checks) + 1
  /\ checks'[Len(checks')].asked

C12_Witness ==
  /\ Discordant(IntegrityChecks(checks)) = maxDiscordance
  /\ \E i \in DOMAIN checks : checks[i].asked /\ checks[i].equal
  /\ events = << [name |-> "EnterOutOfSync", call |-> 0] >>

\* C12: EnterOutOfSync is emitted exactly when the hashes have differed on
\* maxDiscordance (5) integrity checks in a row: never after fewer, and a
\* check whose hashes are equal restarts the count.
C12_EnterAfterMaxDiscordance ==
  [][IsIntegrityCheck =>
       LET run == Discordant(IntegrityChecks(checks'))
           entered == [name |-> "EnterOutOfSync", call |-> 0] \in Range(NewEvents)
       IN /\ entered => run >= maxDiscordance
          /\ run = maxDiscordance => entered
          /\ run < maxDiscordance => ~ isOutOfSync']_vars

C13_Witness ==
  /\ checks # <<>>
  /\ checks[Len(checks)] = [asked |-> TRUE, equal |-> TRUE, recovery |-> TRUE]
  /\ events = << [name |-> "EnterOutOfSync", call |-> 0],
                 [name |-> "ExitOutOfSync", call |-> 0] >>
  /\ ~ isOutOfSync

\* C13: once the engine is out of sync, when the sync that
\* resolveOutOfSync() runs with checkIntegrity = true finds equal hashes,
\* ExitOutOfSync is emitted, isOutOfSync() is false and the discordance is
\* zero.
C13_ExitAfterRecovery ==
  [][( /\ IsIntegrityCheck
       /\ isOutOfSync
       /\ checks'[Len(checks')].recovery
       /\ checks'[Len(checks')].equal )
     => /\ NewEvents = << [name |-> "ExitOutOfSync", call |-> 0] >>
        /\ ~ isOutOfSync'
        /\ syncState'.discordance = 0]_vars


(* ------------------------------ C11 ------------------------------------ *)
\* a step in which the payloads resolved for a response are mapped
IsRetrievedMap == resolving.pc = "resolved" /\ resolving'.pc = "idle"

\* the local item of uuid 1, when the resolver was made, was dirty with a
\* content that is not the retrieved one
DirtyAndDifferent ==
  /\ 1 \in DOMAIN resolving.items
  /\ resolving.items[1].dirty
  /\ resolving.items[1].content # resolving.incoming

HasReservedPrefix(p) ==
  /\ p.content.type = "string"
  /\ Len(p.content.chars) >= 3
  /\ \A k \in 1..3 : p.content.chars[k] = "0"

\* the first n characters of a string, all of them if it has fewer
FirstChars(string, n) ==
  [k \in 1..(IF Len(string) < n THEN Len(string) ELSE n) |-> string[k]]

\* a payload was constructed of a string that goes on after the reserved
\* prefix
C22_Witness ==
  \E i \in DOMAIN heap :
    /\ HasReservedPrefix(heap[i])
    /\ Len(heap[i].content.chars) > 3
    /\ heap[i].format = "DecryptedBase64String"

\* C22: every constructed payload has format DecryptedBase64String exactly
\* when its content is a string starting with "000", EncryptedString exactly
\* when its content is any other string (its version is then the first 3
\* characters of the content), DecryptedBareObject exactly when its content
\* is an object, and Deleted exactly when it has no content
C22_FormatByContent ==
  \A i \in DOMAIN heap :
    LET p == heap[i]
    IN /\ p.format = "DecryptedBase64String" <=> HasReservedPrefix(p)
       /\ p.format = "EncryptedString"
            <=> (p.content.type = "string" /\ ~ HasReservedPrefix(p))
       /\ p.format = "EncryptedString"
            => p.version = FirstChars(p.content.chars, 3)
       /\ p.format = "DecryptedBareObject" <=> p.content.type = "object"
       /\ p.format = "Deleted" <=> p.content.type = "undefined"


\* the fields ejected() never emits
MetaDataFields ==
  {"dirtiedDate", "errorDecrypting", "errorDecryptingValueChanged",
   "waitingForKey", "lastSyncBegan", "lastSyncEnd"}

\* whether a payload lists a field that it holds no value for
HoldsNothing(p, field) == field \in p.fields /\ p[field] \in {"null", "undefined"}

\* a payload that lists meta-data, a deleted without a value and an
\* auth_hash with one was ejected
C25_Witness ==
  /\ ejection.called
  /\ LET p == heap[ejection.of]
     IN /\ "dirtiedDate" \in p.fields
        /\ HoldsNothing(p, "deleted")
        /\ "auth_hash" \in p.fields /\ p.auth_hash = "hash"
        /\ "uuid" \in p.fields

\* C25: ejected() returns exactly the fields listed in the payload's fields,
\* minus dirtiedDate, errorDecrypting, errorDecryptingValueChanged,
\* waitingForKey, lastSyncBegan and lastSyncEnd, and minus deleted and
\* auth_hash when the payload holds no value for them (null or undefined);
\* every other listed field is present with the payload's own value
C25_EjectedFields ==
  ejection.called =>
    LET p == heap[ejection.of]
        expected == {field \in p.fields \ MetaDataFields :
                       field \in {"deleted", "auth_hash"} => ~ HoldsNothing(p, field)}
    IN /\ DOMAIN ejection.result = expected
       /\ \A field \in expected : ejection.result[field] = p[field]


\* payloadByEncryptingPayload was called for a decrypted payload, without a
\* key, while the key manager had none
EncryptedWithoutKey ==
  /\ protoCall.op = "payloadByEncryptingPayload"
  /\ ~ protoCall.key
  /\ itemsKeys = {}
  /\ heap[protoCall.of[1]].format = "DecryptedBareObject"

\* C21: payloadByEncryptingPayload, when no key is supplied and the key
\* manager has none, returns a payload in DecryptedBase64String format with
\* intent Sync, a payload in DecryptedBareObject format with
\* LocalStoragePreferEncrypted, and fails with a missing-key error,
\* returning no payload, with LocalStorageEncrypted or FileEncrypted
C21_Claimed ==
  EncryptedWithoutKey =>
    /\ protoCall.intent = "Sync" =>
         /\ protoCall.threw = ""
         /\ protoCall.out # <<>>
         /\ heap[protoCall.out[1]].format = "DecryptedBase64String"
    /\ protoCall.intent = "LocalStoragePreferEncrypted" =>
         /\ protoCall.threw = ""
         /\ protoCall.out # <<>>
         /\ heap[protoCall.out[1]].format = "DecryptedBareObject"
    /\ protoCall.intent \in {"LocalStorageEncrypted", "FileEncrypted"} =>
         /\ protoCall.threw = "Attempting to generate encrypted payload with no key."
         /\ protoCall.out = <<>>


\* an encrypted payload was decrypted: the payload returned has the decrypted
\* content and the payload given still has the encrypted one
C23_Witness ==
  /\ protoCall.op = "payloadByDecryptingPayload"
  /\ protoCall.out # <<>>
  /\ heap[protoCall.of[1]].format = "EncryptedString"
  /\ heap[protoCall.out[1]].format = "DecryptedBareObject"

\* C23: no operation changes a payload after its construction: every payload
\* is frozen and stays as it was constructed, and payloadByEncryptingPayload,
\* payloadByDecryptingPayload and payloadsByDecryptingPayloads return payloads
\* that they construct (payloadsByDecryptingPayloads returns the payload
\* itself, unchanged, where it has no string content to decrypt)
C23_PayloadsUnchanged ==
  [][/\ \A i \in DOMAIN heap : i \in DOMAIN heap' /\ heap'[i] = heap[i]
     /\ \A i \in DOMAIN heap' : heap'[i].frozen
     /\ (protoCall.op = "" /\ protoCall'.op # "") =>
          \A k \in DOMAIN protoCall'.out :
            \/ protoCall'.out[k] \in DOMAIN heap' \ DOMAIN heap
            \/ /\ protoCall'.op = "payloadsByDecryptingPayloads"
               /\ protoCall'.out[k] = protoCall'.of[k]
               /\ heap[protoCall'.of[k]].content.type # "string"]_vars


\* a payload of a deletion that was not uploaded yet
DeletedAndDirty(p) == p.deleted = "true" /\ p.dirty = "true"

\* the payloads persistPayloads handed to the store for removal: those it
\* pushed as they were, being discardable, and those the store removed
HandedForRemoval ==
  persisted.removed
  \cup (IF persisted.asEncrypted THEN {}
        ELSE {persisted.given[k] : k \in DOMAIN persisted.given} \cap
             {persisted.of[k] : k \in DOMAIN persisted.of})

\* C24: a payload is handed to the persistent store for removal only if it
\* is deleted and not dirty, and a deleted payload that is still dirty is
\* always persisted, encrypted under the local-prefer-encrypted intent: the
\* store holds it afterwards
C24_Claimed ==
  persisted.called =>
    /\ \A r \in HandedForRemoval :
         heap[r].deleted = "true" /\ heap[r].dirty # "true"
    /\ \A k \in DOMAIN persisted.of :
         LET p == heap[persisted.of[k]]
         IN DeletedAndDirty(p) =>
              /\ persisted.threw = ""
              /\ p.uuid \in stored
              /\ \E s \in persisted.saved :
                   /\ heap[s].uuid = p.uuid
                   /\ DeletedAndDirty(heap[s])
                   /\ ~ persisted.asEncrypted => s \notin DOMAIN persisted.of


(* --------------------------- integrity hash ---------------------------- *)

\* the items that are neither deleted nor dummy
Counted == {i \in DOMAIN library : ~ library[i].deleted /\ ~ library[i].dummy}

\* whether a list is the updated_at timestamps of exactly the counted items,
\* in descending order
IsHashOfCounted(list) ==
  /\ Len(list) = Cardinality(Counted)
  /\ \A k \in 1..(Len(list) - 1) : list[k] >= list[k + 1]
  /\ \A t \in 1..MaxUpdatedAt :
       Cardinality({k \in DOMAIN list : list[k] = t})
         = Cardinality({i \in Counted : library[i].updated_at = t})

\* C28: computeDataIntegrityHash, in the sync manager and in the protocol
\* manager alike, is the digest of the updated_at timestamps of exactly the
\* non-deleted, non-dummy items in descending order (so it is the same for
\* any order of the items, unaffected by deleted and dummy items, and
\* differs after a single item's updated_at changes)
C28_Claimed ==
  digest.computed =>
    /\ IsHashOfCounted(digest.sync)
    /\ IsHashOfCounted(digest.protocol)


(* ------------------------ loadDatabasePayloads ------------------------- *)

\* the stored payloads that are items-keys
StoredItemsKeys == {i \in DOMAIN rawStore : rawStore[i] = "SN|ItemsKey"}

\* whether the entry j of the log passes a payload that is no items-key to
\* payloadsByDecryptingPayloads
DecryptsOthers(j) ==
  /\ loadLog[j].what = "decrypt"
  /\ \E k \in DOMAIN loadLog[j].payloads : loadLog[j].payloads[k] \notin StoredItemsKeys

\* whether the invocation l has passed the payload i to what before entry j
PassedBefore(l, what, i, j) ==
  \E d \in 1..(j - 1) :
    /\ loadLog[d].load = l
    /\ loadLog[d].what = what
    /\ \E k \in DOMAIN loadLog[d].payloads : loadLog[d].payloads[k] = i

\* an invocation has decrypted a note of a store that holds an items-key too
C26_Witness ==
  /\ StoredItemsKeys # {}
  /\ \E j \in DOMAIN loadLog : DecryptsOthers(j)

\* C26: during loadDatabasePayloads, every SN|ItemsKey payload is decrypted
\* and mapped into the item graph before any payload of another content type
\* is decrypted
C26_ItemsKeysFirst ==
  \A j \in DOMAIN loadLog :
    DecryptsOthers(j) =>
      \A i \in StoredItemsKeys :
        /\ PassedBefore(loadLog[j].load, "decrypt", i, j)
        /\ PassedBefore(loadLog[j].load, "map", i, j)

\* C27: the stored payloads are loaded at most once per session: every
\* invocation of loadDatabasePayloads other than the first throws and maps
\* nothing, also when it is made while the first load is still running
C27_Claimed ==
  \A l \in DOMAIN loads :
    l > 1 =>
      /\ loads[l].pc = "threw"
      /\ \A j \in DOMAIN loadLog : loadLog[j].load # l


DuplicatesOf(c) ==
  {k \in DOMAIN localItems :
     localItems[k].conflict_of = LocalUuid /\ localItems[k].content = c}

\* C30: however often a payload of the local item's uuid is imported, in one
\* batch or in imports of the same batch, the local item is kept as it was,
\* a payload with another content has exactly one duplicate, and a payload
\* with the local content has none
C30_Claimed ==
  importsDone >= 1 =>
    /\ findItem(localItems, LocalUuid) = <<ImportedItem(LocalUuid, notePayload.content, 0)>>
    /\ \A i \in DOMAIN importBatch :
         importBatch[i].uuid = LocalUuid =>
           Cardinality(DuplicatesOf(importBatch[i].content))
             = (IF importBatch[i].content = notePayload.content THEN 0 ELSE 1)


\* the payloads of the batch for the item of a uuid
IncomingFor(u) == {importBatch[i] : i \in {j \in DOMAIN importBatch : importBatch[j].uuid = u}}

\* the payload the item of a uuid was mapped from
MappedFrom(u) == pair[CHOOSE i \in DOMAIN pair : pair[i].uuid = u]

\* the duplicates the import made of the item of a uuid
DuplicatesOfItem(u) == {k \in DOMAIN localItems : localItems[k].conflict_of = u}

\* a changed note was imported with its unchanged tag, and the tag now
\* references the duplicate of the note
C31_Witness ==
  /\ importsDone = 1
  /\ IncomingFor(TagUuid) = {MappedFrom(TagUuid)}
  /\ IncomingFor(NoteUuid) # {}
  /\ MappedFrom(NoteUuid) \notin IncomingFor(NoteUuid)
  /\ findItem(localItems, TagUuid)[1].content # MappedFrom(TagUuid).content
  /\ DuplicatesOfItem(NoteUuid) # {}

\* C31: after a batch was imported, an item whose incoming payloads all have
\* the content the item had before the batch has no duplicate, whatever the
\* mapping of other duplicates did to it, and an item with an incoming
\* payload of another content has one
C31_ComparedAgainstSnapshot ==
  importsDone = 1 =>
    \A u \in {NoteUuid, TagUuid} :
      /\ IncomingFor(u) \subseteq {MappedFrom(u)} => DuplicatesOfItem(u) = {}
      /\ ~ (IncomingFor(u) \subseteq {MappedFrom(u)}) => DuplicatesOfItem(u) # {}


\* an item that two items reference got a new uuid
C32_Witness ==
  /\ alternation.called
  /\ Cardinality(alternation.referrers) >= 2

\* C32: after alternateUuidForItem the item under the new uuid is referenced
\* by exactly the items that referenced the old uuid before the call, no
\* item references the old uuid, and the old item is deleted and dirty
C32_ReferrersFollow ==
  alternation.called =>
    /\ referrersOf(localItems, alternation.as) = alternation.referrers
    /\ referrersOf(localItems, alternation.of) = {}
    /\ \A k \in DOMAIN localItems :
         localItems[k].uuid = alternation.of =>
           (localItems[k].deleted /\ localItems[k].dirty)
    /\ findItem(localItems, alternation.of) # <<>>


\* what was encrypted when the content string that was decrypted was made
Sealed == vault[opened.content]

\* the decryption was given the key and the uuid of the encryption, and the
\* enc_item_key that was made with the content string
SameKeyAndAad ==
  /\ opened.keyGiven = Sealed.key
  /\ opened.uuid = Sealed.payload.uuid
  /\ opened.key = opened.content

C34_Claimed ==
  \A c \in DOMAIN calls : calls[c].pc # "called" => lastPreSyncSaveDate # 0


\* C35: at every point of an operation payloadsSavedOrSaving holds exactly
\* the payloads popped for upload so far, the payloads given minus the
\* pending ones, and the operation's payloads are those it was given
C35_Claimed ==
  /\ payloadsSavedOrSaving(TheOp) = Flatten(TheOp.requests)
  /\ payloadsSavedOrSaving(TheOp) = arrayByDifference(TheOp.given, TheOp.pendingPayloads)
  /\ TheOp.payloads = TheOp.given


\* the calls made in SYNC_MODE_INITIAL that have not been settled
WaitingInitial == {c \in DOMAIN calls : calls[c].mode = SYNC_MODE_INITIAL}

\* the syncs the manager has started by itself, with this.sync(), after
\* the call c was made
StartedByManagerAfter(c) == {d \in DOMAIN op : d > c /\ calls[d].mode = Undefined}

\* a download-only operation has finished, and its call has returned the
\* promise of the sync that follows it
DownloadedFirst == \E d \in DOMAIN calls : calls[d].pc = "chained"

\* C36: the first operation that is run for a sync() call made in
\* SYNC_MODE_INITIAL uploads nothing, be it the operation of the call or
\* the one of the sync that the manager starts for the call when it had to
\* wait in a queue; dirty items are uploaded only once a download-only
\* operation has finished
C36_Claimed ==
  \A c \in WaitingInitial :
    /\ c \in DOMAIN op => op[c].given = <<>>
    /\ (calls[c].pc = "queued" /\ ~ DownloadedFirst) =>
         \A d \in StartedByManagerAfter(c) : op[d].given = <<>>


\* C37: an item marked dirty after the lastSyncBegan of its sync was stamped
\* is dirty, whether or not the saved response of that sync has been handled:
\* the response leaves it dirty for a later sync to upload its newer content
C37_Claimed ==
  \A u \in DOMAIN notes :
    (notes[u].lastSyncBegan # 0 /\ notes[u].dirtiedDate > notes[u].lastSyncBegan)
      => notes[u].dirty


\* C38: while the handler of a response is at an await, its operation has
\* sent no later request, its sync has not ended, and no other handler is
\* at an await
C38_Claimed ==
  /\ Len(handling) <= 1
  /\ \A i \in DOMAIN handling :
       /\ handling[i].call \in DOMAIN op
       /\ Len(op[handling[i].call].requests) <= handling[i].round

\* C39: the manager holds, in memory or else in storage, the tokens of the
\* last successful response, whatever responses with an error were handled
\* since, and every request in flight carries them
C39_Claimed ==
  /\ afterGetTokens(position).memory = server.granted
  /\ \A c \in DOMAIN opPosition :
       op[c].pc = "inflight" => opPosition[c].request = server.granted

\* C40: once handleSignOut has completed, it has left both queues empty, and
\* no token is held in memory or in storage for as long as no sync started
\* after it has received a response
C40_Claimed ==
  signOut.pc = "completed" =>
    /\ signOut.queuesEmpty
    /\ ~ signOut.answered => position = [memory |-> NoTokens, storage |-> NoTokens]

====
